---- MODULE Spec2Model ----
(***************************************************************************)
(* A model of the pale interpreter: the tokenizer (src/src/tokens.rs), the *)
(* parser and scope (src/src/ast.rs, src/src/identifiers.rs), the value    *)
(* model and the callables (src/src/types.rs, src/src/callable.rs), the    *)
(* diagnostics (src/src/lib/error.rs) and run_lisp and run_lisp_dumped     *)
(* (src/src/lib.rs).                                                       *)
(*                                                                         *)
(* Text is a sequence of pieces.  A piece is a TLA+ string: one character  *)
(* for everything that comes from the source text or from the formatting   *)
(* of a number, and one whole literal for a message literal of the code.   *)
(* Concatenation of text is concatenation of sequences.                    *)
(***************************************************************************)
EXTENDS Integers, Sequences, FiniteSets, TLC

VARIABLES
    source,     \* the source text handed to run_lisp / run_lisp_dumped / tokenize
    pc,         \* position in run_lisp: "lex", "parse", "eval", "done", "aborted"
    tokens,     \* Result of tokenize: the Vec<Token>
    scope,      \* Scope.vars: identifier text -> cell
    heap,       \* the Rc<RefCell<LispValue>> cells, by allocation order
    ast,        \* Result of make_ast; the Statement it returns is heap[ast.v]
    results,    \* the Result of each call of Statement::resolve on the root, in order
    out,        \* the lines written to standard output by println!
    calls,      \* number of Callable::call invocations so far
    raised,     \* number of Err values constructed by callables so far
    handles,    \* the Vars a caller of the Var API holds: cell and how it was obtained
    lisp_errors,     \* the LispErrors a caller of its builder methods holds
    overflow_checks, \* whether the build panics on integer overflow (it wraps otherwise)
    dump             \* whether the function called is run_lisp_dumped (run_lisp otherwise)

vars == <<source, pc, tokens, scope, heap, ast, results, out, calls, raised, handles, lisp_errors,
          overflow_checks, dump>>

-----------------------------------------------------------------------------
(* Bounds of the model.                                                    *)

\* Number of words of the exhaustively enumerated program sources.
MaxWords == 3
\* Number of characters of the exhaustively enumerated tokenizer sources.
MaxChars == 4
\* Number of arguments of the generated statements.
MaxArgs == 3
\* Number of bindings of the generated let lists.
MaxBindings == 2
\* Number of times Statement::resolve is called on the root Statement.
MaxResolves == 2
\* Number of Vars held at once by a caller of the Var API.
MaxHandles == 3

-----------------------------------------------------------------------------
(* Text helpers.                                                           *)

Digit == <<"0", "1", "2", "3", "4", "5", "6", "7", "8", "9">>
DigitChars == {Digit[i] : i \in 1..10}
DigitVal(c) == (CHOOSE i \in 1..10 : Digit[i] = c) - 1

UpperCase == <<"A", "B", "C", "D", "E", "F", "G", "H", "I", "J", "K", "L", "M",
               "N", "O", "P", "Q", "R", "S", "T", "U", "V", "W", "X", "Y", "Z">>
LowerCase == <<"a", "b", "c", "d", "e", "f", "g", "h", "i", "j", "k", "l", "m",
               "n", "o", "p", "q", "r", "s", "t", "u", "v", "w", "x", "y", "z">>

\* char::to_ascii_lowercase
ToAsciiLowerChar(c) ==
    IF \E i \in 1..26 : UpperCase[i] = c
    THEN LowerCase[CHOOSE i \in 1..26 : UpperCase[i] = c]
    ELSE c

\* str::to_ascii_lowercase
ToAsciiLowercase(s) == [i \in 1..Len(s) |-> ToAsciiLowerChar(s[i])]

\* A character that a TLA+ string cannot hold is the piece "<U+XXXX>", XXXX
\* being its code point.  NamedChars gives the code point of each such piece
\* and of the form feed; every other one-character piece is an ASCII
\* character.
BackTick == "<U+0060>"
NamedChars ==
    {<<"<U+0000>", 0>>, <<"<U+000B>", 11>>, <<"\f", 12>>, <<BackTick, 96>>,
     <<"<U+007F>", 127>>, <<"<U+0085>", 133>>, <<"<U+00A0>", 160>>, <<"<U+00E9>", 233>>,
     <<"<U+0301>", 769>>, <<"<U+1680>", 5760>>,
     <<"<U+2000>", 8192>>, <<"<U+2001>", 8193>>, <<"<U+2002>", 8194>>, <<"<U+2003>", 8195>>,
     <<"<U+2004>", 8196>>, <<"<U+2005>", 8197>>, <<"<U+2006>", 8198>>, <<"<U+2007>", 8199>>,
     <<"<U+2008>", 8200>>, <<"<U+2009>", 8201>>, <<"<U+200A>", 8202>>,
     <<"<U+2028>", 8232>>, <<"<U+2029>", 8233>>, <<"<U+202F>", 8239>>, <<"<U+205F>", 8287>>,
     <<"<U+20AC>", 8364>>, <<"<U+3000>", 12288>>, <<"<U+1F600>", 128512>>}
IsNamedChar(c) == \E n \in NamedChars : n[1] = c
CodePoint(c) == (CHOOSE n \in NamedChars : n[1] = c)[2]

\* char::len_utf8
len_utf8(c) ==
    IF ~IsNamedChar(c) THEN 1
    ELSE IF CodePoint(c) < 128 THEN 1
    ELSE IF CodePoint(c) < 2048 THEN 2
    ELSE IF CodePoint(c) < 65536 THEN 3
    ELSE 4

RECURSIVE ByteLen(_)
\* str::len: the number of bytes of the UTF-8 encoding of s
ByteLen(s) == IF s = <<>> THEN 0 ELSE len_utf8(Head(s)) + ByteLen(Tail(s))

\* The characters with the Unicode property White_Space, which str::trim
\* strips and char::is_whitespace accepts.
WhiteSpace ==
    {" ", "\t", "\n", "\r", "\f", "<U+000B>", "<U+0085>", "<U+00A0>", "<U+1680>",
     "<U+2000>", "<U+2001>", "<U+2002>", "<U+2003>", "<U+2004>", "<U+2005>", "<U+2006>",
     "<U+2007>", "<U+2008>", "<U+2009>", "<U+200A>", "<U+2028>", "<U+2029>", "<U+202F>",
     "<U+205F>", "<U+3000>"}

RECURSIVE TrimStart(_)
TrimStart(s) ==
    IF s # <<>> /\ Head(s) \in WhiteSpace THEN TrimStart(Tail(s)) ELSE s

RECURSIVE TrimEnd(_)
TrimEnd(s) ==
    IF s # <<>> /\ s[Len(s)] \in WhiteSpace
    THEN TrimEnd(SubSeq(s, 1, Len(s) - 1))
    ELSE s

\* str::trim
Trim(s) == TrimEnd(TrimStart(s))

IsDigits(s) == s # <<>> /\ \A i \in 1..Len(s) : s[i] \in DigitChars

RECURSIVE DigitsValue(_)
DigitsValue(s) ==
    IF s = <<>> THEN 0
    ELSE 10 * DigitsValue(SubSeq(s, 1, Len(s) - 1)) + DigitVal(s[Len(s)])

RECURSIVE NatDigits(_)
\* Display of a natural number: its decimal digits, one character each.
NatDigits(n) ==
    IF n < 10 THEN <<Digit[n + 1]>>
    ELSE NatDigits(n \div 10) \o <<Digit[(n % 10) + 1]>>

-----------------------------------------------------------------------------
(* Integers of any size.  An isize has 64 bits, more than an integer of    *)
(* TLC, so a value of the type isize, and the exact result of an operation *)
(* on two of them, is held as its sign and the bytes of its magnitude, the *)
(* most significant first: [neg, mag], mag being a sequence of numbers     *)
(* 0..255 without a leading zero.  Zero is [FALSE, <<0>>].                 *)

RECURSIVE MagNorm(_)
\* The bytes m without the zeros before its first other byte
MagNorm(m) ==
    IF m = <<>> THEN <<0>>
    ELSE IF Len(m) > 1 /\ Head(m) = 0 THEN MagNorm(Tail(m))
    ELSE m

Wide(neg, mag) == [neg |-> neg /\ mag # <<0>>, mag |-> mag]

RECURSIVE NatMag(_)
NatMag(n) == IF n < 256 THEN <<n>> ELSE Append(NatMag(n \div 256), n % 256)

\* The integer n, for an n of at most 31 bits
Isize(n) == IF n < 0 THEN Wide(TRUE, NatMag(0 - n)) ELSE Wide(FALSE, NatMag(n))

\* The byte of a at 256^i
ByteAt(a, i) == IF i < Len(a) THEN a[Len(a) - i] ELSE 0

RECURSIVE MagSum(_, _, _, _)
\* a + b, given its bytes `low` below 256^Len(low) and the carry into that place
MagSum(a, b, carry, low) ==
    IF carry = 0 /\ Len(low) >= Len(a) /\ Len(low) >= Len(b) THEN low
    ELSE MagSum(a, b, (ByteAt(a, Len(low)) + ByteAt(b, Len(low)) + carry) \div 256,
                <<(ByteAt(a, Len(low)) + ByteAt(b, Len(low)) + carry) % 256>> \o low)
MagAdd(a, b) == MagNorm(MagSum(a, b, 0, <<>>))

RECURSIVE MagDiff(_, _, _, _)
\* a - b, which is not negative, given its bytes `low` and the borrow from
\* the place 256^Len(low)
MagDiff(a, b, borrow, low) ==
    IF borrow = 0 /\ Len(low) >= Len(a) THEN low
    ELSE MagDiff(a, b, IF ByteAt(a, Len(low)) < ByteAt(b, Len(low)) + borrow THEN 1 ELSE 0,
                 <<(ByteAt(a, Len(low)) + 256 - ByteAt(b, Len(low)) - borrow) % 256>> \o low)
MagSub(a, b) == MagNorm(MagDiff(a, b, 0, <<>>))

RECURSIVE MagBefore(_, _)
\* a < b, for a and b of one length
MagBefore(a, b) ==
    IF a = <<>> THEN FALSE
    ELSE IF Head(a) # Head(b) THEN Head(a) < Head(b)
    ELSE MagBefore(Tail(a), Tail(b))
\* a < b
MagLess(a, b) == IF Len(a) # Len(b) THEN Len(a) < Len(b) ELSE MagBefore(a, b)

RECURSIVE MagTimes(_, _, _, _)
\* a * d + c for a d and a c of at most 8 bits, given its bytes `low` and
\* the carry, which is c at first
MagTimes(a, d, carry, low) ==
    IF carry = 0 /\ Len(low) >= Len(a) THEN low
    ELSE MagTimes(a, d, (ByteAt(a, Len(low)) * d + carry) \div 256,
                  <<(ByteAt(a, Len(low)) * d + carry) % 256>> \o low)

RECURSIVE MagProduct(_, _, _, _)
\* a * b, given the product p of a and the first k - 1 bytes of b
MagProduct(a, b, k, p) ==
    IF k > Len(b) THEN p
    ELSE MagProduct(a, b, k + 1, MagAdd(Append(p, 0), MagNorm(MagTimes(a, b[k], 0, <<>>))))
MagMul(a, b) == MagNorm(MagProduct(a, b, 1, <<>>))

\* -a, a + b, a - b and a * b, exactly
WideNeg(a) == Wide(~a.neg, a.mag)
WideAdd(a, b) ==
    IF a.neg = b.neg THEN Wide(a.neg, MagAdd(a.mag, b.mag))
    ELSE IF MagLess(a.mag, b.mag) THEN Wide(b.neg, MagSub(b.mag, a.mag))
    ELSE Wide(a.neg, MagSub(a.mag, b.mag))
WideSub(a, b) == WideAdd(a, WideNeg(b))
WideMul(a, b) == Wide(a.neg # b.neg, MagMul(a.mag, b.mag))

\* The width of isize
IsizeBits == 64

\* 2^63 and 2^64
IsizeHalf == <<128>> \o [k \in 1..((IsizeBits \div 8) - 1) |-> 0]
IsizeModulus == <<1>> \o [k \in 1..(IsizeBits \div 8) |-> 0]

\* isize::MAX and isize::MIN
isize_MAX == Wide(FALSE, MagSub(IsizeHalf, <<1>>))
isize_MIN == Wide(TRUE, IsizeHalf)

\* isize::MIN <= n <= isize::MAX
InIsize(n) == IF n.neg THEN ~MagLess(IsizeHalf, n.mag) ELSE MagLess(n.mag, IsizeHalf)

\* The magnitude a modulo 2^64: its last 8 bytes
LowBytes(a) ==
    MagNorm(IF Len(a) <= IsizeBits \div 8 THEN a
            ELSE SubSeq(a, Len(a) + 1 - (IsizeBits \div 8), Len(a)))

\* n modulo 2^64 for the residue r of its magnitude, in 0 .. 2^64 - 1
Residue(neg, r) == IF neg /\ r # <<0>> THEN MagSub(IsizeModulus, r) ELSE r

\* The isize of the residue u: u itself below 2^63, u - 2^64 from there on
OfResidue(u) ==
    IF MagLess(u, IsizeHalf) THEN Wide(FALSE, u) ELSE Wide(TRUE, MagSub(IsizeModulus, u))

\* The isize that n wraps around to
WrapIsize(n) == OfResidue(Residue(n.neg, LowBytes(n.mag)))

RECURSIVE MagOfDigits(_, _, _)
\* The number the digits u write, given the number m its first k - 1 write
MagOfDigits(u, k, m) ==
    IF k > Len(u) THEN m
    ELSE IF m = <<0>> /\ u[k] = "0" THEN MagOfDigits(u, k + 1, m)
    ELSE MagOfDigits(u, k + 1, MagNorm(MagTimes(m, 10, DigitVal(u[k]), <<>>)))
MagOf(u) == MagOfDigits(u, 1, <<0>>)

RECURSIVE MagDivTen(_, _, _, _)
\* The quotient and the remainder of a by 10, given those of its first
\* k - 1 bytes: q and r
MagDivTen(a, k, q, r) ==
    IF k > Len(a) THEN [q |-> MagNorm(q), r |-> r]
    ELSE MagDivTen(a, k + 1, Append(q, (r * 256 + a[k]) \div 10), (r * 256 + a[k]) % 10)

RECURSIVE MagDisplay(_, _)
RECURSIVE MagDisplayNext(_, _)
\* The decimal digits of a before the digits `low`
MagDisplay(a, low) ==
    IF a = <<0>> /\ low # <<>> THEN low ELSE MagDisplayNext(MagDivTen(a, 1, <<>>, 0), low)
MagDisplayNext(d, low) == MagDisplay(d.q, <<Digit[d.r + 1]>> \o low)

\* Display for isize
IntDisplay(i) == (IF i.neg THEN <<"-">> ELSE <<>>) \o MagDisplay(i.mag, <<>>)

RECURSIVE Pow10(_)
Pow10(k) == IF k = 0 THEN 1 ELSE 10 * Pow10(k - 1)

\* Whether text s holds the text d as a contiguous part.
Contains(s, d) ==
    \E i \in 1..(Len(s) - Len(d) + 1) : SubSeq(s, i, i + Len(d) - 1) = d

-----------------------------------------------------------------------------
(* Results: Ok(v), Err(LispErrors), or a panic of the process.             *)

OkR(v) == [kind |-> "Ok", v |-> v, e |-> <<>>, panic |-> ""]
ErrR(e) == [kind |-> "Err", v |-> 0, e |-> e, panic |-> ""]
PanicR(why) == [kind |-> "Panic", v |-> 0, e |-> <<>>, panic |-> why]
NoResult == [kind |-> "None", v |-> 0, e |-> <<>>, panic |-> ""]

IsOk(r) == r.kind = "Ok"
IsErr(r) == r.kind = "Err"
IsPanic(r) == r.kind = "Panic"

-----------------------------------------------------------------------------
(* Location and LispErrors (the diagnostics).                              *)

\* The file name run_lisp is given; used only in locations.
FileName == <<"<provided>">>

Location(line, col) == [filename |-> FileName, line |-> line, col |-> col]

\* Display for Location: "{filename}:{line}:{col}"
LocationDisplay(loc) ==
    loc.filename \o <<":">> \o NatDigits(loc.line) \o <<":">> \o NatDigits(loc.col)

\* LispErrors::new
LispErrors_new == <<>>

\* LispErrors::error: push (format!("{loc} - {err}"), Vec::new())
LispErrors_error(errs, loc, err) ==
    Append(errs, [msg |-> LocationDisplay(loc) \o <<" - ">> \o err, notes |-> <<>>])

\* LispErrors::note with loc = None pushing to the notes of the first entry
LispErrors_note_first(errs, err) ==
    IF errs = <<>> THEN errs
    ELSE [errs EXCEPT ![1].notes = Append(@, <<"NOTE: ">> \o err)]

\* LispErrors::note with loc = None: push "NOTE: {err}" to the last entry's notes
LispErrors_note(errs, err) ==
    IF errs = <<>> THEN errs
    ELSE [errs EXCEPT ![Len(errs)].notes = Append(@, <<"NOTE: ">> \o err)]

\* LispErrors::note with loc = Some(l): push "NOTE: {l} - {err}"
LispErrors_note_at(errs, loc, err) ==
    IF errs = <<>> THEN errs
    ELSE [errs EXCEPT ![Len(errs)].notes =
              Append(@, <<"NOTE: ">> \o LocationDisplay(loc) \o <<" - ">> \o err)]

\* LispErrors::extend
LispErrors_extend(errs, other) == errs \o other

RECURSIVE NotesDisplay(_)
NotesDisplay(notes) ==
    IF notes = <<>> THEN <<>>
    ELSE <<"\n\t">> \o Head(notes) \o NotesDisplay(Tail(notes))

RECURSIVE LispErrorsDisplay(_)
\* Display for LispErrors: each entry, then "\n\t{note}" for each of its notes
LispErrorsDisplay(errs) ==
    IF errs = <<>> THEN <<>>
    ELSE Head(errs).msg \o NotesDisplay(Head(errs).notes) \o LispErrorsDisplay(Tail(errs))

-----------------------------------------------------------------------------
(* LispValue (src/src/types.rs).  A Var is a cell of the heap, named by    *)
(* its index; 0 stands for None in an Option<Var>.                         *)

Integer(i) == [tag |-> "Integer", i |-> i]
Str(s) == [tag |-> "Str", s |-> s]
Func(f) == [tag |-> "Func", f |-> f]
Nil == [tag |-> "Nil"]
\* An f64: the one whose shortest decimal is (-1)^neg * m * 10^e, or inf, or NaN.
Floating(fk, neg, m, e) == [tag |-> "Floating", fk |-> fk, neg |-> neg, m |-> m, e |-> e]
StatementValue(args, op, res, loc) ==
    [tag |-> "Statement", args |-> args, op |-> op, res |-> res, loc |-> loc]
VarValue(c) == [tag |-> "Var", c |-> c]
ListValue(l) == [tag |-> "List", l |-> l]

\* IntrinsicOp
IntrinsicOps == {"Add", "Subtract", "Print", "Multiply"}

\* LispValue::is_func
is_func(v) == v.tag = "Func"
\* LispValue::is_stmt
is_stmt(v) == v.tag = "Statement"

-----------------------------------------------------------------------------
(* Number parsing, as str::parse::<isize> and str::parse::<f64> do it.     *)

HasSign(s) == s # <<>> /\ s[1] \in {"+", "-"}
Unsigned(s) == IF HasSign(s) THEN Tail(s) ELSE s

\* The first position of character c in s, 0 when there is none.
IndexOf(s, c) ==
    IF \E i \in 1..Len(s) : s[i] = c
    THEN CHOOSE i \in 1..Len(s) : s[i] = c /\ \A j \in 1..(i - 1) : s[j] # c
    ELSE 0

\* s.parse::<isize>() for an unsigned text u and its sign: the parse fails
\* with PosOverflow or NegOverflow on a number that is no isize
ParseIsizeOf(u, negative) ==
    IF IsDigits(u) /\ InIsize(Wide(negative, MagOf(u)))
    THEN [ok |-> TRUE, i |-> Wide(negative, MagOf(u))]
    ELSE [ok |-> FALSE, i |-> Isize(0)]

\* s.parse::<isize>(): an optional sign and one or more digits, in range.
ParseIsize(s) == ParseIsizeOf(Unsigned(s), s # <<>> /\ s[1] = "-")

RECURSIVE Pow2(_)
Pow2(k) == IF k = 0 THEN 1 ELSE 2 * Pow2(k - 1)

Abs(n) == IF n < 0 THEN 0 - n ELSE n
Max(a, b) == IF a < b THEN b ELSE a

\* The magnitudes of the finite f64s: <<M, E>> is M * 2^E, with M of 53 bits
\* unless the value is subnormal, so that every magnitude is written once.
F64Magnitudes ==
    {d \in (0..(Pow2(53) - 1)) \X (-1074..971) : d[2] = -1074 \/ d[1] >= Pow2(52)}

\* The decimal m * 10^e and the f64 magnitude d, both times 2^1074 * 10^k,
\* for a k that makes them integers
DecimalScaled(m, e, k) == (m * Pow10(e + k)) * Pow2(1074)
F64Scaled(d, k) == (d[1] * Pow2(d[2] + 1074)) * Pow10(k)

\* m * 10^e is at least half way from f64::MAX to 2^1024: it rounds to inf
F64Overflows(m, e) ==
    F64Scaled(<<Pow2(54) - 1, 970>>, Max(0 - e, 0)) <= DecimalScaled(m, e, Max(0 - e, 0))

\* How far the f64 magnitude d is from m * 10^e
F64Distance(d, m, e) ==
    Abs(DecimalScaled(m, e, Max(0 - e, 0)) - F64Scaled(d, Max(0 - e, 0)))

\* The f64 magnitude nearest to m * 10^e, the one with the even M of two
\* that are equally near (round to nearest, ties to even)
IsNearer(d, dist_d, c, dist_c) ==
    dist_d < dist_c \/ (dist_d = dist_c /\ (c = d \/ d[1] % 2 = 0))
NearestIn(S, m, e) ==
    CHOOSE d \in S :
        \A c \in S : IsNearer(d, F64Distance(d, m, e), c, F64Distance(c, m, e))
F64Nearest(m, e) == NearestIn(F64Magnitudes, m, e)

\* The decimals <<m, e>> of at most 17 digits, m without trailing zero
ShortDecimals == {x \in (1..(Pow10(17) - 1)) \X (-400..400) : x[1] % 10 # 0}

\* The decimal x is read as the finite f64 magnitude d
ReadsAs(x, d) == ~F64Overflows(x[1], x[2]) /\ F64Nearest(x[1], x[2]) = d

\* How far the decimal x is from the f64 magnitude d
DecimalDistance(x, d) == Abs(DecimalScaled(x[1], x[2], 400) - F64Scaled(d, 400))

\* The decimal that Display for f64 writes for the magnitude d: the one of
\* the fewest digits that is read as d, and of those the nearest to d
IsShorter(len_x, dist_x, len_y, dist_y) ==
    len_x < len_y \/ (len_x = len_y /\ dist_x <= dist_y)
ShortestIn(S, d) ==
    CHOOSE x \in S :
        \A y \in S : IsShorter(Len(NatDigits(x[1])), DecimalDistance(x, d),
                               Len(NatDigits(y[1])), DecimalDistance(y, d))
ShortestDecimal(d) ==
    IF d[1] = 0 THEN <<0, 0>>
    ELSE ShortestIn({x \in ShortDecimals : ReadsAs(x, d)}, d)

\* The f64 nearest to m * 10^e, by its magnitude
F64OfShortest(neg, x) == Floating("num", neg, x[1], x[2])
F64Rounded(neg, m, e) ==
    IF F64Overflows(m, e) THEN Floating("inf", neg, 0, 0)
    ELSE F64OfShortest(neg, ShortestDecimal(F64Nearest(m, e)))

\* The f64 that the decimal m * 10^e is read as, m > 0 being without
\* trailing zero and of n digits.  A decimal of at most 15 digits between
\* 10^-307 and 10^308 is the shortest decimal of the f64 nearest to it; one
\* of 10^309 or more is read as inf, one below 10^-324 as zero.
F64OfDecimal(neg, m, e, n) ==
    IF n <= 15 /\ e + n - 1 >= -307 /\ e + n - 1 <= 307 THEN Floating("num", neg, m, e)
    ELSE IF e + n - 1 >= 309 THEN Floating("inf", neg, 0, 0)
    ELSE IF e + n - 1 <= -325 THEN Floating("num", neg, 0, 0)
    ELSE F64Rounded(neg, m, e)

RECURSIVE NormalF64(_, _, _)
\* The f64 that the decimal m * 10^e is read as: Floating("num", neg, m', e')
\* is the f64 whose shortest decimal is m' * 10^e', m' without trailing zero.
NormalF64(neg, m, e) ==
    IF m = 0 THEN Floating("num", neg, 0, 0)
    ELSE IF m % 10 = 0 THEN NormalF64(neg, m \div 10, e + 1)
    ELSE F64OfDecimal(neg, m, e, Len(NatDigits(m)))

DigitsOrEmpty(t) == \A i \in 1..Len(t) : t[i] \in DigitChars

\* Number ::= ( Digit+ | Digit+ '.' Digit* | Digit* '.' Digit+ ) Exp?, given its
\* integer part ip, its fraction fp and its exponent (expOk: none or well formed)
ParseNumberParts(neg, ip, fp, expOk, expVal) ==
    IF DigitsOrEmpty(ip) /\ DigitsOrEmpty(fp) /\ ip \o fp # <<>> /\ expOk
    THEN [ok |-> TRUE, f |-> NormalF64(neg, DigitsValue(ip \o fp), expVal - Len(fp))]
    ELSE [ok |-> FALSE, f |-> Nil]

\* The mantissa, split at its first '.' (at position dot, 0 for none)
ParseMantissa(neg, mant, dot, expOk, expVal) ==
    IF dot = 0 THEN ParseNumberParts(neg, mant, <<>>, expOk, expVal)
    ELSE ParseNumberParts(neg, SubSeq(mant, 1, dot - 1), SubSeq(mant, dot + 1, Len(mant)),
                          expOk, expVal)

\* The value of the exponent text: a sign and digits, of any length
ExponentValue(expo) ==
    IF expo # <<>> /\ expo[1] = "-" THEN 0 - DigitsValue(Unsigned(expo))
    ELSE DigitsValue(Unsigned(expo))

\* Exp ::= 'e' Sign? Digit+, the text after the 'e'
ParseExponent(neg, mant, expo) ==
    ParseMantissa(neg, mant, IndexOf(mant, "."), IsDigits(Unsigned(expo)), ExponentValue(expo))

\* The number u, split at its first 'e' (at position ePos, 0 for none)
ParseNumber(neg, u, ePos) ==
    IF ePos = 0 THEN ParseMantissa(neg, u, IndexOf(u, "."), TRUE, 0)
    ELSE ParseExponent(neg, SubSeq(u, 1, ePos - 1), SubSeq(u, ePos + 1, Len(u)))

\* The unsigned, lower-cased text u of an f64
ParseF64Of(neg, u) ==
    IF u = <<"i", "n", "f">> \/ u = <<"i", "n", "f", "i", "n", "i", "t", "y">>
    THEN [ok |-> TRUE, f |-> Floating("inf", neg, 0, 0)]
    ELSE IF u = <<"n", "a", "n">>
    THEN [ok |-> TRUE, f |-> Floating("nan", neg, 0, 0)]
    ELSE ParseNumber(neg, u, IndexOf(u, "e"))

\* s.parse::<f64>():
\*   Sign? ( 'inf' | 'infinity' | 'nan' | Number ),  case-insensitively
\*   Number ::= ( Digit+ | Digit+ '.' Digit* | Digit* '.' Digit+ ) Exp?
\*   Exp    ::= 'e' Sign? Digit+
ParseF64(s) == ParseF64Of(s # <<>> /\ s[1] = "-", ToAsciiLowercase(Unsigned(s)))

RECURSIVE ZeroPad(_, _)
ZeroPad(d, k) == IF Len(d) >= k THEN d ELSE ZeroPad(<<"0">> \o d, k)

\* Display for f64
F64Display(f) ==
    LET sign == IF f.neg THEN <<"-">> ELSE <<>>
    IN  CASE f.fk = "inf" -> sign \o <<"i", "n", "f">>
          [] f.fk = "nan" -> <<"N", "a", "N">>
          [] f.e >= 0 -> sign \o NatDigits(f.m * Pow10(f.e))
          [] OTHER ->
                sign \o NatDigits(f.m \div Pow10(0 - f.e)) \o <<".">>
                     \o ZeroPad(NatDigits(f.m % Pow10(0 - f.e)), 0 - f.e)

\* The digits of m written as d.ddd, for the exponential form
Mantissa(d) == IF Len(d) = 1 THEN d ELSE (<<Head(d)>> \o <<".">>) \o Tail(d)

\* Debug for f64: the shortest decimal, as d.ddde<x> when the value is 1e16
\* or more or less than 1e-4, and with at least one fraction digit otherwise
F64Debug(f) ==
    LET sign == IF f.neg THEN <<"-">> ELSE <<>>
        x == (f.e + Len(NatDigits(f.m))) - 1
    IN  CASE f.fk = "inf" -> sign \o <<"i", "n", "f">>
          [] f.fk = "nan" -> <<"N", "a", "N">>
          [] f.m = 0 -> sign \o <<"0", ".", "0">>
          [] x >= 16 \/ x < -4 ->
                ((sign \o Mantissa(NatDigits(f.m))) \o <<"e">>)
                    \o ((IF x < 0 THEN <<"-">> ELSE <<>>) \o NatDigits(Abs(x)))
          [] f.e >= 0 -> (sign \o NatDigits(f.m * Pow10(f.e))) \o <<".", "0">>
          [] OTHER -> F64Display(f)

-----------------------------------------------------------------------------
(* Tokens (src/src/tokens.rs).                                             *)

StartStmt == [t |-> "StartStmt"]
EndStmt == [t |-> "EndStmt"]
KeyWord(k) == [t |-> "KeyWord", k |-> k]
Recognizable(v) == [t |-> "Recognizable", v |-> v]
Ident(id) == [t |-> "Ident", id |-> id]

Token(loc, dat) == [loc |-> loc, dat |-> dat]

\* impl FromStr for KeyWord
KeyWord_from_str(s) ==
    LET w == ToAsciiLowercase(Trim(s))
    IN  IF w = <<"l", "e", "t">> THEN [ok |-> TRUE, k |-> "Let"]
        ELSE IF w = <<"l", "a", "m", "b", "d", "a">> THEN [ok |-> TRUE, k |-> "Lambda"]
        ELSE [ok |-> FALSE, k |-> ""]

\* TokenType::new_str_lit
new_str_lit(src) == Recognizable(Str(src))

\* The classification of the trimmed text s, in its order: keyword, isize,
\* f64, nil, identifier
Classify(orig, s, kw, int, float) ==
    IF kw.ok THEN KeyWord(kw.k)
    ELSE IF int.ok THEN Recognizable(Integer(int.i))
    ELSE IF float.ok THEN Recognizable(float.f)
    ELSE IF s = <<"n", "i", "l">> THEN Recognizable(Nil)
    ELSE Ident(orig)

\* The classification of orig, whose trimmed text is s
ClassifyTrimmed(orig, s) == Classify(orig, s, KeyWord_from_str(s), ParseIsize(s), ParseF64(s))

\* impl From<T: ToString> for TokenType
TokenType_from(orig) == ClassifyTrimmed(orig, Trim(orig))

\* Tokenizer::new
Tokenizer_new ==
    [tokens |-> <<>>,
     right_assocs |-> 0,
     pos |-> <<0, 0>>,
     pos_locked |-> FALSE,
     token_buf |-> <<>>,
     status |-> "Normal",
     last_character |-> " ",
     panicked |-> FALSE]

\* The Location a token gets: line = pos.1, col = pos.0
TokLoc(tk) == Location(tk.pos[2], tk.pos[1])

\* Tokenizer::push_tok classifying the buffer of a string as it does a bare one
push_tok_classifying(tk) ==
    CASE tk.status = "Normal" ->
            IF Trim(tk.token_buf) # <<>>
            THEN [tk EXCEPT !.tokens = Append(@, Token(TokLoc(tk), TokenType_from(tk.token_buf))),
                            !.token_buf = <<>>,
                            !.pos_locked = FALSE]
            ELSE tk
      [] tk.status = "Comment" -> [tk EXCEPT !.panicked = TRUE]
      [] tk.status = "String" ->
            [tk EXCEPT !.tokens = Append(@, Token(TokLoc(tk), TokenType_from(tk.token_buf))),
                       !.token_buf = <<>>,
                       !.pos_locked = FALSE,
                       !.status = "Normal"]

\* Tokenizer::push_tok
push_tok(tk) ==
    CASE tk.status = "Normal" ->
            IF Trim(tk.token_buf) # <<>>
            THEN [tk EXCEPT !.tokens = Append(@, Token(TokLoc(tk), TokenType_from(tk.token_buf))),
                            !.token_buf = <<>>,
                            !.pos_locked = FALSE]
            ELSE tk
      [] tk.status = "Comment" -> [tk EXCEPT !.panicked = TRUE]
      [] tk.status = "String" ->
            [tk EXCEPT !.tokens = Append(@, Token(TokLoc(tk), new_str_lit(tk.token_buf))),
                       !.token_buf = <<>>,
                       !.pos_locked = FALSE,
                       !.status = "Normal"]

\* Tokenizer::start_stmt
start_stmt(tk) == [tk EXCEPT !.tokens = Append(@, Token(TokLoc(tk), StartStmt))]

\* The EndStmt tokens of the loops `for _ in 0..self.right_assocs`
EndStmts(tk, n) == [i \in 1..n |-> Token(TokLoc(tk), EndStmt)]

\* Tokenizer::end_stmt
end_stmt(tk) ==
    LET buf == Trim(tk.token_buf)
        flushed == IF buf # <<>>
                   THEN Append(tk.tokens, Token(TokLoc(tk), TokenType_from(buf)))
                   ELSE tk.tokens
    IN  [tk EXCEPT !.token_buf = <<>>,
                   !.tokens = (flushed \o EndStmts(tk, tk.right_assocs))
                                  \o <<Token(TokLoc(tk), EndStmt)>>,
                   !.right_assocs = 0,
                   !.pos_locked = FALSE,
                   !.status = "Normal"]

\* The match of Tokenizer::tokenize on (character, status, last_character).
\* skip is TRUE for `continue 'lines`.
tokenize_match(tk, character) ==
    LET keep(t) == [tk |-> t, skip |-> FALSE]
    IN  CASE character = "\"" /\ tk.status = "String" -> keep(push_tok(tk))
          [] tk.status = "String" -> keep([tk EXCEPT !.token_buf = Append(@, character)])
          [] character = "\"" /\ tk.status = "Normal" -> keep([tk EXCEPT !.status = "String"])
          [] character = " " /\ tk.status = "Normal" -> keep(push_tok(tk))
          [] character = "(" /\ tk.status = "Normal" -> keep(start_stmt(tk))
          [] character = ")" /\ tk.status = "Normal" -> keep(end_stmt(tk))
          [] character = "/" /\ tk.status = "Normal" /\ tk.last_character = "/" ->
                [tk |-> tk, skip |-> TRUE]
          [] character = "$" /\ tk.status = "Normal" ->
                keep([start_stmt(tk) EXCEPT !.right_assocs = @ + 1])
          [] character = "*" /\ tk.status = "Normal" /\ tk.last_character = "{" ->
                keep([tk EXCEPT !.status = "Comment"])
          [] tk.status = "Normal" -> keep([tk EXCEPT !.token_buf = Append(@, character)])
          [] character = "}" /\ tk.status = "Comment" /\ tk.last_character = "*" ->
                keep([tk EXCEPT !.status = "Normal"])
          [] OTHER -> keep(tk)

RECURSIVE tokenize_line(_, _, _, _)
\* The inner loop of Tokenizer::tokenize over line_data.trim().char_indices(),
\* from the k-th character on; col_number is the byte offset of the character.
tokenize_line(tk, line_data, line_number, k) ==
    IF k > Len(line_data) THEN tk
    ELSE LET r == tokenize_match(tk, line_data[k])
             t == [r.tk EXCEPT !.last_character = line_data[k],
                               !.pos = IF r.tk.pos_locked THEN @
                                       ELSE <<ByteLen(SubSeq(line_data, 1, k - 1)), line_number>>]
         IN  IF r.skip THEN r.tk
             ELSE tokenize_line(t, line_data, line_number, k + 1)

\* A line that a line feed ended, without the carriage return before it
StripCr(line) ==
    IF line # <<>> /\ line[Len(line)] = "\r" THEN SubSeq(line, 1, Len(line) - 1) ELSE line

RECURSIVE SplitLines(_)
\* str::lines: the text between line endings, "\n" or "\r\n"; a final line
\* ending starts no line, and a final line that no line feed ends keeps a
\* carriage return at its end.
SplitLines(s) ==
    IF s = <<>> THEN <<>>
    ELSE IF IndexOf(s, "\n") = 0 THEN <<s>>
    ELSE <<StripCr(SubSeq(s, 1, IndexOf(s, "\n") - 1))>>
             \o SplitLines(SubSeq(s, IndexOf(s, "\n") + 1, Len(s)))

RECURSIVE tokenize_lines(_, _, _)
\* The outer loop of Tokenizer::tokenize over self.source.lines().enumerate()
tokenize_lines(tk, lines, n) ==
    IF n > Len(lines) THEN tk
    ELSE tokenize_lines(tokenize_line(tk, Trim(lines[n]), n - 1, 1), lines, n + 1)

\* Tokenizer::tokenize calling push_tok once more when the input has ended
Tokenizer_tokenize_flushing(src) ==
    LET tk == push_tok(tokenize_lines(Tokenizer_new, SplitLines(src), 1))
    IN  [tk EXCEPT !.tokens = @ \o EndStmts(tk, tk.right_assocs)]

\* The Tokenizer when Tokenizer::tokenize returns.
Tokenizer_tokenize(src) ==
    LET tk == tokenize_lines(Tokenizer_new, SplitLines(src), 1)
    IN  [tk EXCEPT !.tokens = @ \o EndStmts(tk, tk.right_assocs)]

\* tokens::tokenize
tokenize(src) ==
    LET tk == Tokenizer_tokenize(src)
    IN  IF tk.panicked THEN PanicR("unreachable") ELSE OkR(tk.tokens)

-----------------------------------------------------------------------------
(* Vars and the Scope (src/src/ast.rs).  The store st = [heap, scope] is   *)
(* what the parser reads and writes: the cells and the Scope's map.        *)

\* Var::new: a fresh cell holding v; the new Var is Len(heap) + 1.
Var_new(heap_, v) == Append(heap_, v)
NewVar(heap_) == Len(heap_) + 1

\* Var::new_ref: the new Var shares the cell c
Var_new_ref(c) == c

\* Var::get
Var_get(heap_, c) == heap_[c]

\* `*v.get_mut() = value`
Var_set(heap_, c, value) == [heap_ EXCEPT ![c] = value]

\* Var::maybe_clone with plain data shared instead of copied
Var_maybe_clone_sharing(heap_, c) ==
    CASE heap_[c].tag = "Statement" -> [heap |-> heap_, var |-> 0, panic |-> "not implemented"]
      [] OTHER -> [heap |-> heap_, var |-> Var_new_ref(c), panic |-> ""]

RECURSIVE Var_maybe_clone(_, _)
RECURSIVE clone_list(_, _, _, _)

\* Var::new of the clone of a Var value or a List, r being the maybe_clone
\* of the Var it holds, or of the Vars of the list, and v the value over them
clone_new(r, v) ==
    IF r.panic # "" THEN [heap |-> r.heap, var |-> 0, panic |-> r.panic]
    ELSE [heap |-> Var_new(r.heap, v), var |-> NewVar(r.heap), panic |-> ""]

\* One item of the list, r being its maybe_clone
clone_list_item(l, k, done, r) ==
    IF r.panic # "" THEN [heap |-> r.heap, vars |-> done, panic |-> r.panic]
    ELSE clone_list(r.heap, l, k + 1, Append(done, r.var))

\* LispValue::clone of a List: l.iter().map(Var::maybe_clone).collect(), from
\* the k-th item on.  [heap, vars, panic]
clone_list(heap_, l, k, done) ==
    IF k > Len(l) THEN [heap |-> heap_, vars |-> done, panic |-> ""]
    ELSE clone_list_item(l, k, done, Var_maybe_clone(heap_, l[k]))

\* The clone of the Var value over the maybe_clone r of the Var it holds
clone_var(r) == clone_new(r, VarValue(r.var))

\* The clone of the List over the maybe_clones r of its items
clone_vec(r) == clone_new(r, ListValue(r.vars))

\* Var::maybe_clone: [heap, var, panic].  An IntrinsicOp has the default
\* try_clone, None, so a Func is shared; a Statement is unimplemented!();
\* every other value is cloned into a new cell (LispValue::clone): a Var
\* value by maybe_clone of the Var it holds, a List by maybe_clone of each
\* of its items, in order.
Var_maybe_clone(heap_, c) ==
    CASE heap_[c].tag = "Func" -> [heap |-> heap_, var |-> Var_new_ref(c), panic |-> ""]
      [] heap_[c].tag = "Statement" -> [heap |-> heap_, var |-> 0, panic |-> "not implemented"]
      [] heap_[c].tag = "Var" -> clone_var(Var_maybe_clone(heap_, heap_[c].c))
      [] heap_[c].tag = "List" -> clone_vec(clone_list(heap_, heap_[c].l, 1, <<>>))
      [] OTHER -> [heap |-> Var_new(heap_, heap_[c]), var |-> NewVar(heap_), panic |-> ""]

\* What a cell holds after Var::unwrap moved its value out.
Moved == [tag |-> "Moved"]

\* The cells of the Vars that the value v holds
VarsIn(v) ==
    CASE v.tag = "Statement" ->
            ({v.args[i] : i \in DOMAIN v.args} \cup {v.op}) \cup (IF v.res = 0 THEN {} ELSE {v.res})
      [] v.tag = "Var" -> {v.c}
      [] v.tag = "List" -> {v.l[i] : i \in DOMAIN v.l}
      [] v.tag = "Func" /\ v.f = "Function" ->
            (({v.vars[i] : i \in DOMAIN v.vars} \cup {v.dat.args[i] : i \in DOMAIN v.dat.args})
                \cup {v.dat.op}) \cup (IF v.dat.res = 0 THEN {} ELSE {v.dat.res})
      [] OTHER -> {}

RECURSIVE Reach(_, _)
\* The cells that are reached from the cells cs through the Vars in them
Reach(heap_, cs) ==
    IF UNION {VarsIn(heap_[c]) : c \in cs} \subseteq cs THEN cs
    ELSE Reach(heap_, cs \cup UNION {VarsIn(heap_[c]) : c \in cs})

\* Whether Rc::try_unwrap of a Var of cell c fails: another Var of the cell
\* is alive, in the Scope or in a value that is reached from the Scope.
\* (The value of c itself is held by the Var that is unwrapped.)
IsShared(st, c) ==
    \/ \E n \in DOMAIN st.scope : st.scope[n] = c
    \/ \E x \in Reach(st.heap, {st.scope[n] : n \in DOMAIN st.scope}) \ {c} :
           c \in VarsIn(st.heap[x])

Str_print == <<"p", "r", "i", "n", "t">>

\* impl Default for Scope: the cells of the four intrinsics, and the map to them
DefaultHeap == <<Func("Print"), Func("Add"), Func("Subtract"), Func("Multiply")>>
DefaultScope ==
    [n \in {Str_print, <<"+">>, <<"-">>, <<"*">>} |->
        CASE n = Str_print -> 1
          [] n = <<"+">> -> 2
          [] n = <<"-">> -> 3
          [] n = <<"*">> -> 4]
DefaultStore == [heap |-> DefaultHeap, scope |-> DefaultScope]

\* BTreeMap::insert of a new key
ScopeInsert(sc, ident, value) ==
    [n \in (DOMAIN sc) \cup {ident} |-> IF n = ident THEN value ELSE sc[n]]

\* A parser's outcome: kind "None" while it runs, then Ok(stmt), Err(e) or a panic.
ParseOk(stmt) == [kind |-> "Ok", stmt |-> stmt, e |-> <<>>, panic |-> ""]
ParseErr(e) == [kind |-> "Err", stmt |-> Nil, e |-> e, panic |-> ""]
ParsePanic(why) == [kind |-> "Panic", stmt |-> Nil, e |-> <<>>, panic |-> why]
ParseRunning == [kind |-> "None", stmt |-> Nil, e |-> <<>>, panic |-> ""]

\* Var::unwrap of the Var s that the parser took from its args:
\* Rc::try_unwrap(self.dat).unwrap().into_inner().  [st, ret]
Var_unwrap(st, s) ==
    IF IsShared(st, s)
    THEN [st |-> st, ret |-> ParsePanic("called Result::unwrap() on an Err value")]
    ELSE [st |-> [st EXCEPT !.heap[s] = Moved], ret |-> ParseOk(st.heap[s])]

\* introduce_identifier without its contains_key check: the insert replaces
\* the binding of a name that is already bound.
introduce_identifier_overwriting(st, ident, value, loc) ==
    [st |-> [st EXCEPT !.scope = ScopeInsert(@, ident, value)], ret |-> ParseRunning]

\* AstParser::introduce_identifier (the Nil cell that unwrap_or builds and drops
\* when a value is given is not kept).
introduce_identifier(st, ident, value, loc) ==
    IF ident \in DOMAIN st.scope
    THEN [st |-> st,
          ret |-> ParseErr(LispErrors_note(
                      LispErrors_error(LispErrors_new, loc,
                                       <<"Shadowing is not currently allowed!">>),
                      <<"Change its name.">>))]
    ELSE [st |-> [st EXCEPT !.scope = ScopeInsert(@, ident, value)],
          ret |-> ParseRunning]

-----------------------------------------------------------------------------
(* process_identifiers (src/src/identifiers.rs).                           *)

\* IdentParserStatus
IdentNormal == [m |-> "Normal", loc |-> Location(0, 0), has_ident |-> FALSE,
                ident |-> <<>>, has_value |-> FALSE]
IdentSpecific(l, has_ident, ident, has_value) ==
    [m |-> "Specific", loc |-> l, has_ident |-> has_ident, ident |-> ident,
     has_value |-> has_value]

\* Identifier, with data = Either::Right(Var)
Identifier(ident, v, loc) == [ident |-> ident, right |-> TRUE, data |-> v, loc_introduced |-> loc]

HexDigit == <<"0", "1", "2", "3", "4", "5", "6", "7", "8", "9", "a", "b", "c", "d", "e", "f">>

RECURSIVE HexDigits(_)
\* format!("{:x}", n)
HexDigits(n) ==
    IF n < 16 THEN <<HexDigit[n + 1]>>
    ELSE HexDigits(n \div 16) \o <<HexDigit[(n % 16) + 1]>>

\* The named characters that are printable and not Grapheme_Extend; the
\* others are controls, separators and the combining mark U+0301.
PrintableNamed == {BackTick, "<U+00E9>", "<U+20AC>", "<U+1F600>"}

\* What char::escape_debug_ext writes for each character that it escapes, as
\* Debug for str calls it: the double quote is escaped, the single quote is
\* not, and a character that is not printable is written by its code point
EscapeTable ==
    [c \in {"\t", "\r", "\n", "\\", "\""} \cup ({n[1] : n \in NamedChars} \ PrintableNamed) |->
        CASE c = "<U+0000>" -> <<"\\", "0">>
          [] c = "\t" -> <<"\\", "t">>
          [] c = "\r" -> <<"\\", "r">>
          [] c = "\n" -> <<"\\", "n">>
          [] c = "\\" -> <<"\\", "\\">>
          [] c = "\"" -> <<"\\", "\"">>
          [] OTHER -> <<"\\", "u", "{">> \o HexDigits(CodePoint(c)) \o <<"}">>]

\* The entry of c in the table t, or c itself
Escape(t, c) == IF c \in DOMAIN t THEN t[c] ELSE <<c>>

\* char::escape_debug_ext
escape_debug(c) == Escape(EscapeTable, c)

RECURSIVE EscapeDebug(_)
EscapeDebug(s) == IF s = <<>> THEN <<>> ELSE escape_debug(Head(s)) \o EscapeDebug(Tail(s))

\* format!("{id:?}") of a string
DebugStr(id) == <<"\"">> \o EscapeDebug(id) \o <<"\"">>

\* One pass of the loop of process_identifiers, on token tok.
\* q = [heap, to_introduce, status, ret]
process_identifiers_match(q, tok, idents) ==
    LET d == tok.dat
        sp == q.status
        err(e) == [q EXCEPT !.ret = ParseErr(e)]
        E1(loc, m) == LispErrors_error(LispErrors_new, loc, m)
    IN  CASE d.t = "Ident" /\ sp.m = "Normal" ->
                [q EXCEPT !.heap = Var_new(@, Nil),
                          !.to_introduce = Append(@, Identifier(d.id, NewVar(q.heap), tok.loc))]
          [] d.t = "StartStmt" /\ sp.m = "Normal" ->
                [q EXCEPT !.status = IdentSpecific(tok.loc, FALSE, <<>>, FALSE)]
          [] d.t = "StartStmt" /\ sp.m = "Specific" /\ ~sp.has_ident ->
                err(E1(tok.loc, <<"Variable names must be literals!">>))
          [] d.t = "Ident" /\ sp.m = "Specific" /\ ~sp.has_ident ->
                [q EXCEPT !.status = IdentSpecific(sp.loc, TRUE, d.id, FALSE)]
          [] d.t = "Ident" /\ sp.m = "Specific" /\ sp.has_ident /\ ~sp.has_value ->
                IF d.id \notin DOMAIN idents
                THEN err(E1(tok.loc, <<"Unknown identifier ">> \o DebugStr(d.id) \o <<"!">>))
                ELSE [q EXCEPT !.to_introduce =
                                   Append(@, Identifier(sp.ident, idents[d.id], tok.loc)),
                               !.status = IdentSpecific(sp.loc, TRUE, sp.ident, TRUE)]
          [] d.t = "Ident" /\ sp.m = "Specific" /\ sp.has_ident /\ sp.has_value ->
                err(LispErrors_note_at(E1(sp.loc, <<"Identifier not allowed here!">>),
                                       sp.loc, <<"Remove it">>))
          [] d.t = "Recognizable" /\ sp.m = "Specific" /\ sp.has_ident ->
                [q EXCEPT !.heap = Var_new(@, d.v),
                          !.to_introduce = Append(@, Identifier(sp.ident, NewVar(q.heap), tok.loc)),
                          !.status = IdentSpecific(sp.loc, TRUE, sp.ident, TRUE)]
          [] d.t = "EndStmt" /\ sp.m = "Specific" /\ sp.has_ident /\ ~sp.has_value ->
                err(LispErrors_note_at(
                        E1(sp.loc, <<"Variable defined in parentheses must have an initial value.">>),
                        sp.loc, <<"Remove the parentheses around it.">>))
          [] d.t = "EndStmt" /\ sp.m = "Specific" /\ sp.has_ident /\ sp.has_value ->
                [q EXCEPT !.status = IdentNormal]
          [] d.t = "KeyWord" ->
                err(E1(tok.loc, <<"Keywords are not allowed in variable assignments!">>))
          [] d.t = "StartStmt" /\ sp.m = "Specific" /\ sp.has_ident /\ ~sp.has_value ->
                err(E1(tok.loc, <<"Variables must be literals or other values (not expressions)!">>))
          [] d.t = "StartStmt" /\ sp.m = "Specific" /\ sp.has_ident /\ sp.has_value ->
                err(LispErrors_note_at(E1(tok.loc, <<"Unknown opening parenthesis.">>),
                                       tok.loc, <<"Delete it.">>))
          [] d.t = "EndStmt" -> [q EXCEPT !.ret = ParsePanic("unreachable")]
          [] d.t = "Recognizable" /\ sp.m = "Normal" ->
                err(LispErrors_note_at(
                        LispErrors_note(E1(tok.loc, <<"Unknown literal in ", BackTick, "let", BackTick, " statement.">>),
                                        <<"Bind it to a variable name.">>),
                        tok.loc, <<"Delete it.">>))
          [] d.t = "Recognizable" /\ sp.m = "Specific" /\ ~sp.has_ident ->
                err(E1(tok.loc, <<"Cannot assign to literal value!">>))

RECURSIVE process_identifiers_loop(_, _, _, _)
process_identifiers_loop(q, toks, k, idents) ==
    IF k > Len(toks) \/ q.ret.kind # "None" THEN q
    ELSE process_identifiers_loop(process_identifiers_match(q, toks[k], idents),
                                  toks, k + 1, idents)

\* process_identifiers: [heap, to_introduce, status, ret]; ret.kind = "None"
\* stands for Ok(to_introduce).
process_identifiers(toks, heap_, idents) ==
    process_identifiers_loop(
        [heap |-> heap_, to_introduce |-> <<>>, status |-> IdentNormal, ret |-> ParseRunning],
        toks, 1, idents)

-----------------------------------------------------------------------------
(* AstParser (src/src/ast.rs).  Token indices are the code's, from 0:      *)
(* the code's ts[i] is ts[i + 1] here.                                     *)

\* AstParserStatus
StatusNormal == [m |-> "Normal", start |-> 0, positions |-> <<>>]
StatusIdentifiers(start, positions) ==
    [m |-> "Identifiers", start |-> start, positions |-> positions]

NoLoc == [some |-> FALSE, loc |-> Location(0, 0)]
SomeLoc(l) == [some |-> TRUE, loc |-> l]

\* AstParser::new
AstParser_new(st) ==
    [st |-> st, open_stack |-> <<>>, args |-> <<>>, loc |-> NoLoc,
     status |-> StatusNormal, ret |-> ParseRunning]

\* Vec::pop
Pop(stack) == IF stack = <<>> THEN stack ELSE SubSeq(stack, 1, Len(stack) - 1)

RawListError(start) ==
    LispErrors_note(
        LispErrors_note(
            LispErrors_error(LispErrors_new, start, <<"Raw lists are not available (Yet...)!">>),
            <<"This is not a function.">>),
        <<"Use the ", BackTick, "list", BackTick, " intrinsic to convert this to a list.">>)

EmptyStatementError(start) ==
    LispErrors_error(LispErrors_new, start, <<"Empty statements are not allowed!">>)

RECURSIVE introduce_all(_, _, _)
\* The loop of AstParser::parse over the Identifiers process_identifiers returned
introduce_all(st, vals, k) ==
    IF k > Len(vals) THEN [st |-> st, ret |-> ParseRunning]
    ELSE IF ~vals[k].right
    THEN [st |-> st,
          ret |-> ParseErr(LispErrors_error(LispErrors_new, vals[k].loc_introduced,
                    <<"Making a variable depend upon another in the statement is not currently implemented!">>))]
    ELSE LET r == introduce_identifier(st, vals[k].ident, vals[k].data, vals[k].loc_introduced)
         IN  IF r.ret.kind # "None" THEN r ELSE introduce_all(r.st, vals, k + 1)


\* The end of a binding list with the names scanned so far introduced even
\* when the scan fails
parse_let_list_eager(p, ts, i) ==
    LET t == p.status.start
    IN  IF t + 2 > i THEN [p EXCEPT !.ret = ParsePanic("slice index starts after its end")]
        ELSE LET q == process_identifiers(SubSeq(ts, t + 3, i), p.st.heap, p.st.scope)
                 st1 == [p.st EXCEPT !.heap = q.heap]
                 r == introduce_all(st1, q.to_introduce, 1)
             IN  IF q.ret.kind # "None" THEN [p EXCEPT !.st = r.st, !.ret = q.ret]
                 ELSE IF r.ret.kind # "None" THEN [p EXCEPT !.st = r.st, !.ret = r.ret]
                 ELSE [p EXCEPT !.st = r.st, !.status = StatusNormal]

\* The arm (Identifiers(start, positions), EndStmt) of AstParser::parse once
\* positions is empty: scan the binding list, then introduce its names.
parse_let_list(p, ts, i) ==
    LET t == p.status.start
    IN  IF t + 2 > i THEN [p EXCEPT !.ret = ParsePanic("slice index starts after its end")]
        ELSE LET q == process_identifiers(SubSeq(ts, t + 3, i), p.st.heap, p.st.scope)
                 st1 == [p.st EXCEPT !.heap = q.heap]
                 r == introduce_all(st1, q.to_introduce, 1)
             IN  IF q.ret.kind # "None" THEN [p EXCEPT !.st = st1, !.ret = q.ret]
                 ELSE IF r.ret.kind # "None" THEN [p EXCEPT !.st = r.st, !.ret = r.ret]
                 ELSE [p EXCEPT !.st = r.st, !.status = StatusNormal]

RECURSIVE make_ast(_, _, _)

\* The arm (Normal, Ident(id)) reporting an unbound name at the location of
\* the last operator seen (self.loc) instead of the token's own.
parse_ident_at_operator(p, tok) ==
    IF tok.dat.id \notin DOMAIN p.st.scope
    THEN [p EXCEPT !.ret = ParseErr(LispErrors_error(LispErrors_new, p.loc.loc,
              <<"Unknown identifier ", BackTick>> \o tok.dat.id \o <<BackTick, "!">>))]
    ELSE IF p.open_stack = <<>>
    THEN [p EXCEPT !.args = Append(@, p.st.scope[tok.dat.id]),
                   !.loc = SomeLoc(tok.loc)]
    ELSE p

\* The arm (Normal, Ident(id)) of AstParser::parse, on the token tok
parse_ident(p, tok) ==
    IF tok.dat.id \notin DOMAIN p.st.scope
    THEN [p EXCEPT !.ret = ParseErr(LispErrors_error(LispErrors_new, tok.loc,
              <<"Unknown identifier ", BackTick>> \o tok.dat.id \o <<BackTick, "!">>))]
    ELSE IF p.open_stack = <<>>
    THEN [p EXCEPT !.args = Append(@, p.st.scope[tok.dat.id]),
                   !.loc = SomeLoc(tok.loc)]
    ELSE p

\* One pass of the loop of AstParser::parse, on the token of index i.
parse_match(p, ts, i) ==
    LET tok == ts[i + 1]
        d == tok.dat
    IN  CASE p.status.m = "Normal" /\ d.t = "StartStmt" ->
                [p EXCEPT !.open_stack = Append(@, i)]
          [] p.status.m = "Normal" /\ d.t = "EndStmt" ->
                IF p.open_stack # <<>>
                THEN LET o == p.open_stack[Len(p.open_stack)]
                         r == make_ast(SubSeq(ts, o + 1, i + 1), p.st, ts[o + 2].loc)
                     IN  IF Len(p.open_stack) > 1
                         THEN [p EXCEPT !.open_stack = Pop(@)]
                         ELSE IF r.ret.kind = "Ok"
                         THEN [p EXCEPT !.open_stack = Pop(@),
                                        !.st = [r.st EXCEPT !.heap = Var_new(@, r.ret.stmt)],
                                        !.args = Append(@, NewVar(r.st.heap))]
                         ELSE [p EXCEPT !.open_stack = Pop(@), !.st = r.st, !.ret = r.ret]
                ELSE [p EXCEPT !.ret = ParseErr(LispErrors_note(
                          LispErrors_error(LispErrors_new, tok.loc,
                                           <<"Unmatched closing parentheses!">>),
                          <<"Delete it.">>))]
          [] p.status.m = "Normal" /\ d.t = "KeyWord" ->
                IF d.k = "Let" THEN [p EXCEPT !.status = StatusIdentifiers(i, <<>>)]
                ELSE [p EXCEPT !.ret = ParsePanic("not implemented")]
          [] p.status.m = "Normal" /\ d.t = "Recognizable" ->
                IF p.open_stack = <<>>
                THEN [p EXCEPT !.st.heap = Var_new(@, d.v),
                               !.args = Append(@, NewVar(p.st.heap))]
                ELSE p
          [] p.status.m = "Normal" /\ d.t = "Ident" -> parse_ident(p, tok)
          [] p.status.m = "Identifiers" /\ d.t = "StartStmt" ->
                [p EXCEPT !.status.positions = Append(@, i)]
          [] p.status.m = "Identifiers" /\ d.t = "EndStmt" ->
                IF Len(p.status.positions) <= 1
                THEN parse_let_list(p, ts, i)
                ELSE [p EXCEPT !.status.positions = Pop(@)]
          [] OTHER -> p

RECURSIVE parse_loop(_, _, _, _)
\* for i in start_idx..=end_idx, from i on
parse_loop(p, ts, i, end_idx) ==
    IF i > end_idx \/ p.ret.kind # "None" THEN p
    ELSE parse_loop(parse_match(p, ts, i), ts, i + 1, end_idx)

\* The end of a parse that builds the Statement without looking at what its
\* first value holds
parse_finish_unchecked(p, ts, start) ==
    LET done(r) == [st |-> p.st, ret |-> r]
        s == p.args[1]
        rest == Tail(p.args)
    IN  IF p.open_stack # <<>>
        THEN done(ParseErr(LispErrors_note(
                 LispErrors_error(LispErrors_new, ts[p.open_stack[Len(p.open_stack)] + 1].loc,
                                  <<"Unmatched opening parentheses!">>),
                 <<"Deleting it might fix this error.">>)))
        ELSE IF p.args = <<>> THEN done(ParsePanic("removal index (is 0) should be < len (is 0)"))
        ELSE IF p.loc.some
        THEN done(ParseOk(StatementValue(rest, s, 0, p.loc.loc)))
        ELSE IF rest = <<>> /\ is_stmt(p.st.heap[s])
        THEN Var_unwrap(p.st, s)
        ELSE done(ParseErr(RawListError(start)))

\* AstParser::parse after its loop: the three outcomes
parse_finish(p, ts, start) ==
    LET done(r) == [st |-> p.st, ret |-> r]
        s == p.args[1]
        rest == Tail(p.args)
    IN  IF p.open_stack # <<>>
        THEN done(ParseErr(LispErrors_note(
                 LispErrors_error(LispErrors_new, ts[p.open_stack[Len(p.open_stack)] + 1].loc,
                                  <<"Unmatched opening parentheses!">>),
                 <<"Deleting it might fix this error.">>)))
        ELSE IF p.args = <<>> THEN done(ParsePanic("removal index (is 0) should be < len (is 0)"))
        ELSE IF is_func(p.st.heap[s])
        THEN IF p.loc.some
             THEN done(ParseOk(StatementValue(rest, s, 0, p.loc.loc)))
             ELSE done(ParsePanic("called Option::unwrap() on a None value"))
        ELSE IF rest = <<>> /\ is_stmt(p.st.heap[s])
        THEN Var_unwrap(p.st, s)
        ELSE done(ParseErr(RawListError(start)))

\* AstParser::parse: [st, ret]
parse(ts, st, start) ==
    LET start_idx == IF ts[1].dat.t = "StartStmt" THEN 1 ELSE 0
        end_idx == IF ts[Len(ts)].dat.t = "EndStmt" THEN Len(ts) - 2 ELSE Len(ts) - 1
        p == parse_loop(AstParser_new(st), ts, start_idx, end_idx)
    IN  IF Len(ts) < 2 THEN [st |-> st, ret |-> ParseErr(EmptyStatementError(start))]
        ELSE IF start_idx > end_idx THEN [st |-> st, ret |-> ParseErr(EmptyStatementError(start))]
        ELSE IF p.ret.kind # "None" THEN [st |-> p.st, ret |-> p.ret]
        ELSE parse_finish(p, ts, start)

\* make_ast
make_ast(ts, idents, start) == parse(ts, idents, start)

-----------------------------------------------------------------------------
(* Evaluation (src/src/ast.rs, src/src/callable.rs, src/src/types.rs).     *)
(* The evaluation state ev = [heap, out, calls, raised] is threaded through *)
(* every call; an evaluation yields [r, ev], r being Ok(Var), Err or panic. *)
(* Integers are isize: an arithmetic result outside its range panics in a   *)
(* build with overflow checks and wraps around in a build without them.    *)

Eval(r, ev) == [r |-> r, ev |-> ev]

\* The outcome of `sum += i`, `sum -= i` or `product *= i` with the exact
\* result n and the panic message of its overflow check: [panic, i]
Arith(n, ev, overflow) ==
    IF InIsize(n) THEN [panic |-> "", i |-> n]
    ELSE IF ev.overflow_checks
    THEN [panic |-> overflow, i |-> Isize(0)]
    ELSE [panic |-> "", i |-> WrapIsize(n)]

\* A Ref of the cell c is taken (Var::get, or the borrow() of Var::resolve)
Borrow(ev, c) == [ev EXCEPT !.borrowed = @ \cup {c}]

\* The Ref taken for the evaluation x is dropped: the cells in b stay borrowed
Release(x, b) == [x EXCEPT !.ev.borrowed = b]

\* println!: one more line on standard output
println(ev, line) == [ev EXCEPT !.out = Append(@, line)]

\* Err(LispErrors::new().error(loc, msg)) built by a callable
Raise(ev, errs) == Eval(ErrR(errs), [ev EXCEPT !.raised = @ + 1])

\* Ok(Var::new(v))
OkNew(ev, v) == Eval(OkR(NewVar(ev.heap)), [ev EXCEPT !.heap = Var_new(@, v)])

RECURSIVE Statement_resolve(_, _)
RECURSIVE Var_resolve(_, _)
RECURSIVE LispValue_display(_, _)
RECURSIVE add_loop(_, _, _, _, _)
RECURSIVE multiply_loop(_, _, _, _, _)
RECURSIVE subtract_loop(_, _, _, _, _)
RECURSIVE multiply_first(_, _, _)
RECURSIVE multiply_from(_, _, _)
RECURSIVE subtract_first(_, _, _)
RECURSIVE subtract_from(_, _, _)
RECURSIVE println_display(_)
RECURSIVE add_item(_, _, _, _, _)
RECURSIVE multiply_item(_, _, _, _, _)
RECURSIVE subtract_item(_, _, _, _, _)
RECURSIVE list_display(_, _, _)
RECURSIVE list_display_item(_, _, _)

RECURSIVE Var_display(_, _)
RECURSIVE Statement_display(_)

\* A text written without a panic
Shown(t, ev) == [text |-> t, ev |-> ev, panic |-> ""]

\* The arm of a List: the items d between parentheses
List_display(d) == [d EXCEPT !.text = <<"(">> \o @ \o <<")">>]

\* The loop of Display for LispValue::List: t = format!("{t} {item}")
list_display(l, k, ev) ==
    IF k > Len(l) THEN [text |-> <<>>, ev |-> ev, panic |-> ""]
    ELSE list_display_item(l, k, Var_display(l[k], ev))

\* t = format!("{t} {item}") with the text d of the item and the text rest
\* of the items after it
list_display_push(d, rest) ==
    [text |-> <<" ">> \o d.text \o rest.text, ev |-> rest.ev, panic |-> rest.panic]

\* One turn of the loop, d being the Display of the k-th item
list_display_item(l, k, d) ==
    IF d.panic # "" THEN d ELSE list_display_push(d, list_display(l, k + 1, d.ev))

\* Display for LispValue, of the value in cell c: [text, ev, panic].  A
\* Statement is resolved to be shown, and an Err is shown as its text.
LispValue_display(c, ev) ==
    CASE ev.heap[c].tag = "Integer" -> Shown(IntDisplay(ev.heap[c].i), ev)
      [] ev.heap[c].tag = "Str" -> Shown(ev.heap[c].s, ev)
      [] ev.heap[c].tag = "Func" -> Shown(<<"<Function>">>, ev)
      [] ev.heap[c].tag = "Statement" -> Statement_display(Var_resolve(c, ev))
      [] ev.heap[c].tag = "List" -> List_display(list_display(ev.heap[c].l, 1, ev))
      [] ev.heap[c].tag = "Floating" -> Shown(F64Display(ev.heap[c]), ev)
      [] ev.heap[c].tag = "Nil" -> Shown(<<"n", "i", "l">>, ev)
      [] ev.heap[c].tag = "Var" -> Var_display(ev.heap[c].c, ev)

\* The arm of a Statement: match s.resolve(), r being what it returned
Statement_display(r) ==
    IF IsOk(r.r) THEN Var_display(r.r.v, r.ev)
    ELSE IF IsErr(r.r)
    THEN [text |-> LispErrorsDisplay(r.r.e), ev |-> r.ev, panic |-> ""]
    ELSE [text |-> <<>>, ev |-> r.ev, panic |-> r.r.panic]

\* Display for Var: write!(f, "{}", *self.get()), the Display of the value in
\* its cell, which is borrowed meanwhile
Var_display(c, ev) == Release(LispValue_display(c, Borrow(ev, c)), ev.borrowed)

\* The warning an arithmetic intrinsic prints when args.len() < 2
ArityWarning(ev, args, loc, what) ==
    IF Len(args) < 2
    THEN println(ev, LocationDisplay(loc) \o <<" - ">> \o what \o <<" requires at least two arguments!">>)
    ELSE ev

\* The loops of the arithmetic intrinsics after the k-th argument, x being
\* the outcome of the assignment to the accumulator
add_next(args, k, x, loc, ev) ==
    IF x.panic # "" THEN Eval(PanicR(x.panic), ev) ELSE add_loop(args, k + 1, x.i, loc, ev)
multiply_next(args, k, x, loc, ev) ==
    IF x.panic # "" THEN Eval(PanicR(x.panic), ev) ELSE multiply_loop(args, k + 1, x.i, loc, ev)
subtract_next(args, k, x, loc, ev) ==
    IF x.panic # "" THEN Eval(PanicR(x.panic), ev) ELSE subtract_loop(args, k + 1, x.i, loc, ev)

\* IntrinsicOp::Add: the loop over args from the k-th on
add_loop(args, k, sum, loc, ev) ==
    IF k > Len(args) THEN OkNew(ev, Integer(sum))
    ELSE add_item(args, k, sum, loc, Var_resolve(args[k], ev))

\* The arm of a value that is no Integer, d being its Display in the message
add_incompatible(loc, d) ==
    IF d.panic # "" THEN Eval(PanicR(d.panic), d.ev)
    ELSE Raise(d.ev, LispErrors_error(LispErrors_new, loc,
             <<"Incompatible types for addition: Integer and ">> \o d.text))

\* One turn of the loop, a being arg.resolve()? of the k-th argument.  The
\* Ref of `*a.resolve()?.get()` lives to the end of the `if let`, its else
\* branch included.
add_item(args, k, sum, loc, a) ==
    IF ~IsOk(a.r) THEN a
    ELSE IF a.ev.heap[a.r.v].tag = "Integer"
    THEN add_next(args, k, Arith(WideAdd(sum, a.ev.heap[a.r.v].i), a.ev,
                                 "attempt to add with overflow"), loc, a.ev)
    ELSE Release(add_incompatible(loc, Var_display(args[k], Borrow(a.ev, a.r.v))),
                 a.ev.borrowed)

\* IntrinsicOp::Multiply: the loop over args.iter().skip(1)
multiply_loop(args, k, product, loc, ev) ==
    IF k > Len(args) THEN OkNew(ev, Integer(product))
    ELSE multiply_item(args, k, product, loc, Var_resolve(args[k], ev))

\* One turn of the loop, a being arg.resolve()? of the k-th argument
multiply_item(args, k, product, loc, a) ==
    IF ~IsOk(a.r) THEN a
    ELSE IF a.ev.heap[a.r.v].tag = "Integer"
    THEN multiply_next(args, k, Arith(WideMul(product, a.ev.heap[a.r.v].i), a.ev,
                                      "attempt to multiply with overflow"), loc, a.ev)
    ELSE Raise(a.ev, LispErrors_error(LispErrors_new, loc,
             <<"Cannot multiply with non-integer type!">>))

\* IntrinsicOp::Subtract: the loop over args.iter().skip(1)
subtract_loop(args, k, sum, loc, ev) ==
    IF k > Len(args) THEN OkNew(ev, Integer(sum))
    ELSE subtract_item(args, k, sum, loc, Var_resolve(args[k], ev))

\* One turn of the loop, a being arg.resolve()? of the k-th argument
subtract_item(args, k, sum, loc, a) ==
    IF ~IsOk(a.r) THEN a
    ELSE IF a.ev.heap[a.r.v].tag = "Integer"
    THEN subtract_next(args, k, Arith(WideSub(sum, a.ev.heap[a.r.v].i), a.ev,
                                      "attempt to subtract with overflow"), loc, a.ev)
    ELSE Raise(a.ev, LispErrors_error(LispErrors_new, loc,
             <<"Cannot subtract a non-integer type from an integer!">>))

\* IntrinsicOp::call, Add
IntrinsicOp_Add(args, loc, ev) ==
    add_loop(args, 1, Isize(0), loc, ArityWarning(ev, args, loc, <<"Addition">>))

\* IntrinsicOp::call, Multiply
IntrinsicOp_Multiply(args, loc, ev) ==
    multiply_first(args, loc, ArityWarning(ev, args, loc, <<"Multiplication">>))

\* args.get(0).unwrap().resolve()? once the warning is printed
multiply_first(args, loc, ev) ==
    IF args = <<>> THEN Eval(PanicR("called Option::unwrap() on a None value"), ev)
    ELSE multiply_from(args, loc, Var_resolve(args[1], ev))

\* The product starts at the first argument, t being what it resolved to
multiply_from(args, loc, t) ==
    IF ~IsOk(t.r) THEN t
    ELSE IF t.ev.heap[t.r.v].tag = "Integer"
    THEN multiply_loop(args, 2, t.ev.heap[t.r.v].i, loc, t.ev)
    ELSE Raise(t.ev, LispErrors_error(LispErrors_new, loc,
             <<"Cannot multiply with non-integer type!">>))

\* IntrinsicOp::call, Subtract
IntrinsicOp_Subtract(args, loc, ev) ==
    subtract_first(args, loc, ArityWarning(ev, args, loc, <<"Subtraction">>))

\* args.get(0).unwrap().resolve()? once the warning is printed
subtract_first(args, loc, ev) ==
    IF args = <<>> THEN Eval(PanicR("called Option::unwrap() on a None value"), ev)
    ELSE subtract_from(args, loc, Var_resolve(args[1], ev))

\* The sum starts at the first argument, t being what it resolved to
subtract_from(args, loc, t) ==
    IF ~IsOk(t.r) THEN t
    ELSE IF t.ev.heap[t.r.v].tag = "Integer"
    THEN subtract_loop(args, 2, t.ev.heap[t.r.v].i, loc, t.ev)
    ELSE Raise(t.ev, LispErrors_error(LispErrors_new, loc,
             <<"Cannot subtract from a non-integer!">>))

\* IntrinsicOp::Print taking every argument list that is not empty
IntrinsicOp_print_first(args, loc, ev) ==
    IF Len(args) = 0
    THEN Raise(ev, LispErrors_note(
             LispErrors_error(LispErrors_new, loc,
                              <<"Print intrinsic requires only one argument!">>),
             <<"Try wrapping this in a statement with ", BackTick, "$", BackTick, ".">>))
    ELSE println_display(Var_display(args[1], ev))

\* IntrinsicOp::call, the arm of the print intrinsic
IntrinsicOp_print(args, loc, ev) ==
    IF Len(args) # 1
    THEN Raise(ev, LispErrors_note(
             LispErrors_error(LispErrors_new, loc,
                              <<"Print intrinsic requires only one argument!">>),
             <<"Try wrapping this in a statement with ", BackTick, "$", BackTick, ".">>))
    ELSE println_display(Var_display(args[1], ev))

\* println!("{}", args[0]) and Ok(Var::new(0)), d being the Display of args[0]
println_display(d) ==
    IF d.panic # "" THEN Eval(PanicR(d.panic), d.ev)
    ELSE OkNew(println(d.ev, d.text), Integer(Isize(0)))

\* impl Callable for IntrinsicOp: call
IntrinsicOp_call(f, args, loc, ev) ==
    LET ev1 == [ev EXCEPT !.calls = @ + 1]
    IN  CASE f = "Add" -> IntrinsicOp_Add(args, loc, ev1)
          [] f = "Multiply" -> IntrinsicOp_Multiply(args, loc, ev1)
          [] f = "Subtract" -> IntrinsicOp_Subtract(args, loc, ev1)
          [] f = "Print" -> IntrinsicOp_print(args, loc, ev1)

\* User functions (struct Function of src/src/callable.rs)

\* Function::new(vars, dat), held as LispValue::Func(Box<dyn Callable>)
Function_new(vs, dat) == [tag |-> "Func", f |-> "Function", vars |-> vs, dat |-> dat]

RECURSIVE Function_bind(_, _, _, _, _)

\* One turn of the loop, r being arg.maybe_clone(), which is evaluated
\* before var.get_mut(): RefCell::borrow_mut panics when a Ref of the
\* parameter's cell is alive.
Function_bind_item(vs, args, k, r, borrowed) ==
    IF r.panic # "" THEN [heap |-> r.heap, panic |-> r.panic]
    ELSE IF vs[k] \in borrowed THEN [heap |-> r.heap, panic |-> "RefCell already borrowed"]
    ELSE Function_bind(vs, args, k + 1, Var_set(r.heap, vs[k], VarValue(r.var)), borrowed)

\* The loop of Function::call over args.iter().zip(self.vars.iter()), from
\* the k-th pair on: *var.get_mut() = LispValue::Var(arg.maybe_clone()),
\* the cells in borrowed having a Ref alive.  [heap, panic]
Function_bind(vs, args, k, heap_, borrowed) ==
    IF k > Len(vs) \/ k > Len(args) THEN [heap |-> heap_, panic |-> ""]
    ELSE Function_bind_item(vs, args, k, Var_maybe_clone(heap_, args[k]), borrowed)

\* An evaluation [r, ev] together with the Function after it
CallOf(x, fn) == [r |-> x.r, ev |-> x.ev, fn |-> fn]

\* What Function::call returns, s being what self.dat.resolve() gave
Function_returned(fn, s) == [r |-> s.r, ev |-> s.ev, fn |-> [fn EXCEPT !.dat = s.stmt]]

\* The tail of Function::call once the loop has run: self.dat.resolve()
Function_body(fn, b, ev) ==
    IF b.panic # "" THEN CallOf(Eval(PanicR(b.panic), [ev EXCEPT !.heap = b.heap]), fn)
    ELSE Function_returned(fn, Statement_resolve(fn.dat, [ev EXCEPT !.heap = b.heap]))

\* Function::call with the parameters written before the counts are compared
Function_call_binding_first(fn, args, loc, ev) ==
    LET ev1 == [ev EXCEPT !.calls = @ + 1,
                          !.heap = Function_bind(fn.vars, args, 1, ev.heap, ev.borrowed).heap]
    IN  IF Len(args) < Len(fn.vars)
        THEN CallOf(Raise(ev1, LispErrors_error(LispErrors_new, loc,
                              <<"Insufficient arguments provided!">>)), fn)
        ELSE IF Len(args) > Len(fn.vars)
        THEN CallOf(Raise(ev1, LispErrors_note_at(
                              LispErrors_error(LispErrors_new, loc,
                                               <<"Too many arguments provided!">>),
                              loc, <<"Delete them">>)), fn)
        ELSE Function_body(fn, Function_bind(fn.vars, args, 1, ev.heap, ev.borrowed),
                           [ev EXCEPT !.calls = @ + 1])

\* impl Callable for Function: call.  [r, ev, fn]
Function_call(fn, args, loc, ev) ==
    LET ev1 == [ev EXCEPT !.calls = @ + 1]
    IN  IF Len(args) < Len(fn.vars)
        THEN CallOf(Raise(ev1, LispErrors_error(LispErrors_new, loc,
                              <<"Insufficient arguments provided!">>)), fn)
        ELSE IF Len(args) > Len(fn.vars)
        THEN CallOf(Raise(ev1, LispErrors_note_at(
                              LispErrors_error(LispErrors_new, loc,
                                               <<"Too many arguments provided!">>),
                              loc, <<"Delete them">>)), fn)
        ELSE Function_body(fn, Function_bind(fn.vars, args, 1, ev1.heap, ev1.borrowed), ev1)

\* What Statement::resolve does with the result r of the call: on Ok the
\* result slot of the Statement takes a new_ref of the handle.
StoreResult(stmt, r) == IF IsOk(r) THEN [stmt EXCEPT !.res = r.v] ELSE stmt

\* The panic of LispValue::unwrap_func on a value that is no Func.  Its
\* message formats the value with Display, d being what that did: a
\* Statement in the op cell is resolved for it, with all its effects.
unwrap_func_panic(stmt, d) ==
    [r |-> PanicR(IF d.panic # "" THEN d.panic ELSE "Expected to be LispType::Func"),
     ev |-> d.ev, stmt |-> stmt]

\* Statement::resolve after the call c of the Function in its op cell, which
\* holds the Function as the call left it
Function_resolved(stmt, c) ==
    [r |-> c.r, ev |-> [c.ev EXCEPT !.heap[stmt.op] = c.fn], stmt |-> StoreResult(stmt, c.r)]

\* Statement::resolve after the call r of the intrinsic in its op cell
Intrinsic_resolved(stmt, r) == [r |-> r.r, ev |-> r.ev, stmt |-> StoreResult(stmt, r.r)]

\* Statement::resolve after self.op.get(), whose Ref lives until the call
\* has returned
Statement_call(stmt, ev) ==
    IF ~is_func(ev.heap[stmt.op]) THEN unwrap_func_panic(stmt, LispValue_display(stmt.op, ev))
    ELSE IF ev.heap[stmt.op].f = "Function"
    THEN Function_resolved(stmt, Function_call(ev.heap[stmt.op], stmt.args, stmt.loc, ev))
    ELSE Intrinsic_resolved(stmt, IntrinsicOp_call(ev.heap[stmt.op].f, stmt.args, stmt.loc, ev))

\* Statement::resolve of the Statement value stmt: [r, ev, stmt], stmt being
\* the Statement afterwards (its result slot may have been written).
Statement_resolve(stmt, ev) == Release(Statement_call(stmt, Borrow(ev, stmt.op)), ev.borrowed)

\* The cell c holds the Statement as its resolution s left it
Statement_resolved(c, s) == Eval(s.r, [s.ev EXCEPT !.heap[c] = s.stmt])

\* Var::resolve of the Var c: a Statement in the cell is resolved in place,
\* under the Ref of `match &*self.dat.borrow()`; any other value resolves to
\* a new_ref of the Var itself.
Var_resolve(c, ev) ==
    IF is_stmt(ev.heap[c])
    THEN Release(Statement_resolved(c, Statement_resolve(ev.heap[c], Borrow(ev, c))),
                 ev.borrowed)
    ELSE Eval(OkR(c), ev)

-----------------------------------------------------------------------------
(* Source texts.  A word is the text of one lexeme; a program source is a  *)
(* sequence of words written with one space between two words, except     *)
(* after "(" and before ")", as in the sources of the specification.       *)

W_open == <<"(">>
W_close == <<")">>
W_plus == <<"+">>
W_minus == <<"-">>
W_times == <<"*">>
W_print == Str_print
W_foo == <<"f", "o", "o">>
W_x == <<"x">>
W_let == <<"l", "e", "t">>
W_lambda == <<"l", "a", "m", "b", "d", "a">>
W_str_a == <<"\"", "a", "\"">>
W_str_q == <<"\"", "q", "\"">>
W_wrap == <<"$">>

RECURSIVE Unwords(_)
Unwords(ws) ==
    IF ws = <<>> THEN <<>>
    ELSE IF Len(ws) = 1 THEN ws[1]
    ELSE IF ws[1] = W_open \/ ws[2] = W_close THEN ws[1] \o Unwords(Tail(ws))
    ELSE ws[1] \o <<" ">> \o Unwords(Tail(ws))

\* The sequences over the set S of length at most n
SeqsUpTo(S, n) == UNION {[1..k -> S] : k \in 0..n}


\* The words a b c ... of a statement, wrapped in a start/end pair
Wrap(ws) == <<W_open>> \o ws \o <<W_close>>

\* The sources of the specification's testable properties, as words
Ex_add == Wrap(<<W_plus, <<"3", "4">>, <<"3", "5">>>>)
Ex_add_nested ==
    Wrap(<<W_plus, <<"3", "4">>>> \o Wrap(<<W_plus, <<"3", "4">>, <<"1">>>>))
Ex_mul == Wrap(<<W_times, <<"2">>, <<"3">>, <<"4">>>>)
Ex_sub == Wrap(<<W_minus, <<"1", "0">>, <<"3">>, <<"2">>>>)
Ex_add_str == Wrap(<<W_plus, <<"1">>, W_str_a>>)
Ex_foo == Wrap(<<W_foo, <<"1">>>>)
Ex_foo_nested == Wrap(<<W_plus, <<"1">>>> \o Wrap(<<W_foo, <<"2">>>>))
Ex_let_twice ==
    Wrap(<<W_let>> \o Wrap(Wrap(<<W_x, <<"1">>>>) \o Wrap(<<W_x, <<"2">>>>)) \o <<W_x>>)
Ex_empty == Wrap(<<>>)
Ex_empty_nested == Wrap(<<W_plus, <<"1">>>> \o Wrap(<<>>))

Examples ==
    {Ex_add, Ex_add_nested, Ex_mul, Ex_sub, Ex_add_str, Ex_foo, Ex_foo_nested,
     Ex_let_twice, Ex_empty, Ex_empty_nested, <<W_open>>, <<W_close>>}

\* Statements over the least and the greatest isize: isize::MAX - 1 and
\* isize::MIN + 1, which are isizes, and isize::MAX + 1, isize::MIN - 1 and
\* isize::MAX * 2, which are none
W_max == IntDisplay(isize_MAX)
W_min == IntDisplay(isize_MIN)
Ex_add_overflow == Wrap(<<W_plus, W_max, <<"1">>>>)
Ex_sub_overflow == Wrap(<<W_minus, W_min, <<"1">>>>)
Ex_mul_overflow == Wrap(<<W_times, W_max, <<"2">>>>)
IsizeLimits ==
    {Ex_add_overflow, Ex_sub_overflow, Ex_mul_overflow,
     Wrap(<<W_plus, W_max, <<"-", "1">>>>), Wrap(<<W_minus, W_min, <<"-", "1">>>>),
     Wrap(<<W_times, W_min, <<"1">>>>), Wrap(<<W_plus, W_min, W_max>>)}

\* Statements (op a1 ... ak) over the intrinsics, k <= MaxArgs, and the same
\* with one more, nested, statement before or after the arguments.
OpWords == {W_plus, W_minus, W_times, W_print}
AtomWords == {<<"2">>, <<"1", "0">>, <<"-", "3">>, W_str_q}
NestedWords == {Wrap(<<o, a, b>>) : o \in OpWords, a \in {<<"2">>, W_str_a}, b \in {<<"5">>}}
                   \cup {Wrap(<<W_print>> \o Wrap(<<o, <<"5">>, a>>)) : o \in OpWords, a \in AtomWords}
FlatStatements == {Wrap(<<o>> \o as) : o \in OpWords, as \in SeqsUpTo(AtomWords, MaxArgs)}
NestedStatements ==
    {Wrap((<<o>> \o as) \o n) : o \in OpWords, as \in SeqsUpTo(AtomWords, 1), n \in NestedWords}
        \cup {Wrap((<<o>> \o n) \o as) : o \in OpWords, as \in SeqsUpTo(AtomWords, 1), n \in NestedWords}

\* Statements with let forms: (let (b1 ... bk) body), k <= MaxBindings, and
\* two let forms in a row, each of one binding.
BindingWords ==
    {<<n>> : n \in {W_x, W_plus}}
        \cup {Wrap(<<n, v>>) : n \in {W_x, <<"y">>, W_plus}, v \in {<<"1">>, W_x}}
        \cup {Wrap(<<W_x>>)}
RECURSIVE Flatten(_)
Flatten(ss) == IF ss = <<>> THEN <<>> ELSE Head(ss) \o Flatten(Tail(ss))
LetBodies == {<<W_plus, <<"1">>, <<"2">>>>, <<W_plus, W_x, <<"2">>>>}
LetStatements ==
    {Wrap((<<W_let>> \o Wrap(Flatten(bs))) \o body) :
        bs \in SeqsUpTo(BindingWords, MaxBindings), body \in LetBodies}
        \cup {Wrap(((<<W_let>> \o Wrap(b1)) \o (<<W_let>> \o Wrap(b2))) \o body) :
                b1 \in BindingWords, b2 \in BindingWords, body \in LetBodies}

\* Every sequence of at most MaxWords words
WordAlphabet == {W_open, W_close, W_plus, W_print, <<"1">>, W_str_a, W_foo, W_let, W_lambda}
ShortPrograms == SeqsUpTo(WordAlphabet, MaxWords)

\* Well-formed statements, and what one slip makes of them: one word more
\* (a parenthesis, an empty statement, an unbound name) at any place.
BasePrograms ==
    {Ex_add, Ex_add_nested, Ex_mul,
     <<W_plus, <<"1">>, <<"2">>>>,
     Wrap(<<W_print>> \o Wrap(<<W_plus, <<"1">>, <<"2">>>>)),
     Wrap(<<W_plus>> \o Wrap(<<W_times, <<"2">>>> \o Wrap(<<W_minus, <<"3">>, <<"1">>>>))),
     Wrap((<<W_let>> \o Wrap(Wrap(<<W_x, <<"1">>>>))) \o <<W_plus, W_x, <<"2">>>>)}
InsertAt(ws, k, extra) == (SubSeq(ws, 1, k) \o extra) \o SubSeq(ws, k + 1, Len(ws))
Slips == {<<W_open>>, <<W_close>>, <<W_open, W_close>>, <<W_foo>>, Wrap(<<W_foo>>)}
OneSlip ==
    UNION {{InsertAt(b, k, e) : k \in 0..Len(b), e \in Slips} : b \in BasePrograms}

\* Statements with one `$` at any place
Ex_wrap_print == Wrap(<<W_print, W_wrap, W_plus, <<"1">>, <<"2">>>>)
Ex_wrap_nested ==
    Wrap((<<W_print, W_wrap, W_plus, <<"1">>>> \o Wrap(<<W_plus, <<"2">>, <<"3">>>>)) \o <<<<"4">>>>)
WrapBases ==
    BasePrograms \cup {Wrap(<<W_print, W_plus, <<"1">>, <<"2">>>>),
                       Wrap((<<W_plus, <<"1">>>> \o Wrap(<<W_plus, <<"2">>, <<"3">>>>)) \o <<<<"4">>>>)}
WrapPrograms ==
    {Ex_wrap_print, Ex_wrap_nested}
        \cup UNION {{InsertAt(b, k, <<W_wrap>>) : k \in 0..Len(b)} : b \in WrapBases}


\* let forms whose binding list holds a good binding and then one that the
\* scan rejects: a name without a value, a keyword, a name bound to an
\* unknown name, a literal where a name is expected
ScanFailures ==
    {Wrap((<<W_let>> \o Wrap(Wrap(<<W_x, <<"1">>>>) \o <<b>>)) \o <<W_plus, W_x, <<"2">>>>)
        : b \in {W_let, W_lambda, <<"2">>}}
    \cup {Wrap((<<W_let>> \o Wrap(Wrap(<<W_x, <<"1">>>>) \o b)) \o <<W_plus, W_x, <<"2">>>>)
        : b \in {Wrap(<<<<"y">>>>), Wrap(<<<<"y">>, <<"z">>>>), Wrap(<<<<"2">>, <<"3">>>>)}}


\* Statements with the keyword lambda: as operator, as argument, in a
\* nested statement, after an unknown name, and in and before the binding
\* list of a let
LambdaPrograms ==
    {Wrap(<<W_lambda>>), Wrap((<<W_lambda>> \o Wrap(<<W_x>>)) \o <<W_x>>),
     Wrap(<<W_plus, <<"1">>, W_lambda>>), Wrap(<<W_plus, <<"1">>>> \o Wrap(<<W_lambda>>)),
     Wrap(<<W_foo, W_lambda>>), Wrap(<<W_let, W_lambda>>),
     Wrap((<<W_let>> \o Wrap(<<W_lambda>>)) \o <<W_plus, <<"1">>, <<"2">>>>),
     Wrap((<<W_let>> \o Wrap(Wrap(<<W_x, W_lambda>>))) \o <<W_plus, <<"1">>, <<"2">>>>),
     Wrap((<<W_let, W_lambda>> \o Wrap(<<>>)) \o <<W_plus, <<"1">>, <<"2">>>>),
     Wrap((<<W_let, W_lambda>> \o Wrap(Wrap(<<W_x, <<"1">>>>))) \o <<W_plus, <<"1">>, <<"2">>>>)}

\* Statements for each way a parse can end: a span holding only a let
\* form, values that are not callable, and a nested statement alone or
\* followed by a value
Ex_let_only == Wrap(<<W_let>> \o Wrap(Wrap(<<W_x, <<"1">>>>)))
Ex_let_value == Wrap((<<W_let>> \o Wrap(Wrap(<<W_x, <<"1">>>>))) \o <<W_x>>)
OutcomePrograms ==
    {Ex_let_only, Ex_let_value, Wrap(<<<<"1">>>>), Wrap(<<<<"1">>, <<"2">>>>),
     Wrap(<<<<"1">>, W_plus>>), Wrap(Ex_add), Wrap(Ex_add \o <<<<"3">>>>),
     Wrap(<<W_plus>>)}

\* Statements with a let form in a nested statement
Let_x1 == <<W_let>> \o Wrap(Wrap(<<W_x, <<"1">>>>))
NestedLetPrograms ==
    {Wrap((<<W_plus>> \o Wrap(Let_x1 \o <<W_x>>)) \o <<<<"2">>>>),
     Wrap((<<W_plus>> \o Wrap(Let_x1 \o <<W_plus, W_x, <<"1">>>>)) \o <<<<"2">>>>),
     Wrap(<<W_plus, <<"2">>>> \o Wrap(Let_x1 \o <<W_plus, W_x, <<"1">>>>)),
     Wrap(<<W_plus, <<"2">>>> \o Wrap(<<W_plus, <<"1">>>> \o Wrap(Let_x1 \o <<W_plus, W_x, <<"1">>>>)))}

\* Statements whose let is followed by an empty binding inside the list, by
\* an end marker, or by nothing
ScannerSpans ==
    {Wrap((<<W_let>> \o Wrap(Wrap(<<>>))) \o <<W_plus, <<"1">>, <<"2">>>>),
     Wrap(<<W_plus, W_let, W_close, <<"1">>>>),
     Wrap(<<W_let, W_close, W_plus, <<"1">>, <<"2">>>>),
     Wrap((<<W_let>> \o Wrap(<<>>)) \o <<W_plus, <<"1">>, <<"2">>>>)}

ProgramWords ==
    Examples \cup IsizeLimits \cup FlatStatements \cup NestedStatements \cup LetStatements
        \cup ShortPrograms \cup BasePrograms \cup OneSlip \cup WrapPrograms
        \cup OutcomePrograms \cup ScanFailures \cup LambdaPrograms
        \cup NestedLetPrograms \cup ScannerSpans

\* The source texts run_lisp is given
ProgramSources == {Unwords(ws) : ws \in ProgramWords}

\* The example of the tokenizer test
Ex_tokenizer ==
    Unwords(Wrap(<<W_plus>> \o Wrap(<<W_minus, <<"1">>, <<"2", "3">>,
                                     <<"2", "3", "4", "2", "3", "4", "2", "3">>>>)
                 \o <<<<"\"", "s", "l", "i", "i", "j", "i", "o", "o", "\"">>>>))

\* The source texts tokenize is given: every text of at most MaxChars
\* characters of LexAlphabet, and the sources above.
LexAlphabet == {"(", ")", " ", "1", "a", "\""}
\* Comments: line comments up to and including their line feed, and block
\* comments, one of them over two lines
LineComments == {<<"/", "/", "\n">>, <<"/", "/", " ", "c", "\n">>}
BlockComments ==
    {<<"{", "*", "*", "}">>, <<"{", "*", "c", "*", "}">>,
     <<"{", "*", " ", "c", "\n", "d", " ", "*", "}">>}
CommentBases == {Unwords(Ex_mul), Unwords(Wrap(<<W_print, W_str_q>>))}
CommentSources ==
    UNION {{InsertAt(b, k, c) : k \in 0..Len(b), c \in LineComments \cup BlockComments}
              : b \in CommentBases}


\* Bare lexemes of every class: keywords in several spellings, whole
\* numbers, decimal numbers, nil, and identifiers that resemble them
ClassWords ==
    {W_let, W_lambda, <<"L", "E", "T">>, <<"L", "e", "t">>, <<"L", "a", "m", "b", "d", "a">>,
     <<"l", "e", "t", "s">>, <<"1", "2">>, <<"-", "3">>, <<"1", ".", "5">>, <<"1", "e", "2">>,
     <<"n", "i", "l">>, <<"N", "i", "l">>, <<"n", "i", "l", "s">>, W_x, W_plus, <<"1", "x">>}


\* Bodies of string literals: empty, reading as a keyword, a number or nil,
\* and holding the characters that delimit tokens outside a string
StringBodies ==
    {<<>>, W_let, W_lambda, <<"1", "2">>, <<"1", ".", "5">>, <<"n", "i", "l">>,
     <<"a", " ", "(", "b", ")", " ", "$", " ", "/", "/", " ", "{", "*", "c">>}
\* The source (print "b")
PrintOf(b) == Unwords(Wrap(<<W_print, (<<"\"">> \o b) \o <<"\"">>>>))

\* Sources that end in a bare token or with a `$` still open
Ex_unwrapped == <<W_plus, <<"1">>, <<"2">>>>
Ex_wrap_open == <<W_print, W_wrap>>
OpenEnded ==
    {Ex_unwrapped, Ex_wrap_open, <<W_print, W_wrap, W_plus, <<"1">>, <<"2">>>>,
     <<W_print, W_wrap, W_wrap, <<"1">>>>}

\* Sources that end inside a string or inside a block comment
Unterminated ==
    {<<"(", "p", " ", "\"", "q">>,
     <<"(", "p", " ", "$", " ", "\"", "a", " ", "b", ")", " ", "1">>,
     <<"(", "+", " ", "1", " ", "{", "*", " ", "c">>,
     <<"(", "+", " ", "1", " ", "{", "*", " ", "c", "\n", "2", ")">>,
     <<"(", "$", " ", "a", "{", "*", "\"", ")">>}

\* Sources of two lines, the line break between two bare lexemes
TwoLineSources ==
    {<<"(", "+", " ", "1", "\n", "2", ")">>,
     <<"(", "+", " ", "1", " ", "\n", " ", "2", ")">>,
     <<"(", "a", " ", "/", "\n", "/", " ", "b", ")">>,
     <<"(", "a", " ", "{", "\n", "*", " ", "b", ")">>,
     <<"(", "p", " ", "$", " ", "a", "\n", "b", ")">>,
     <<"(", "a", "\n", "(", "b", ")", ")">>,
     <<"(", "a", " ", "(", "b", ")", "\n", "(", "c", ")", ")">>}

\* Sources with a bare lexeme directly before `(` or `$`
AdjacentSources ==
    {<<"(", "a", "(", " ", "b", ")", ")">>,
     <<"(", "a", "$", " ", "b", ")">>,
     <<"(", "+", " ", "1", "(", "-", " ", "2", " ", "3", ")", ")">>,
     <<"(", "a", " ", "(", "b", ")", ")">>,
     <<"(", "a", " ", "$", " ", "b", ")">>}

LexSources ==
    SeqsUpTo(LexAlphabet, MaxChars) \cup {Ex_tokenizer}
        \cup {Unwords(ws) : ws \in Examples \cup WrapPrograms}
        \cup CommentSources
        \cup {Unwords(ws) : ws \in OpenEnded}
        \cup {Unwords(Wrap(<<w>>)) : w \in ClassWords}
        \cup {PrintOf(b) : b \in StringBodies}
        \cup {<<"(", "\"", "a", " ", "\n", " ", "b", "\"", ")">>}
        \cup Unterminated
        \cup TwoLineSources
        \cup AdjacentSources

-----------------------------------------------------------------------------
(* Debug: impl Debug for LispValue (src/src/types.rs) and the derived      *)
(* impls of Var, Statement, Location and TokenType.  An impl hands the     *)
(* Formatter a struct with named fields, a tuple of one field or a list;   *)
(* the Formatter writes it on one line for {:?} and with one field or item *)
(* per line, indented by four spaces, for {:#?}.                           *)

DebugLeaf(text) == [k |-> "leaf", text |-> text]
DebugField(name, v) == [name |-> name, v |-> v]
\* f.debug_struct(name).field(..).finish()
DebugStruct(name, fields) == [k |-> "struct", name |-> name, fields |-> fields]
\* f.debug_tuple(name).field(v).finish()
DebugTuple(name, v) == [k |-> "tuple", name |-> name, v |-> v]
\* f.debug_list().entries(items).finish()
DebugList(items) == [k |-> "list", items |-> items]
\* write!(f, "{:?}", v) inside an impl: the flags of f do not reach v, which
\* is written on one line
DebugPlain(v) == [k |-> "plain", v |-> v]

\* #[derive(Debug)] for Location
Location_debug(loc) ==
    DebugStruct("Location", <<DebugField("filename", DebugLeaf(DebugStr(loc.filename))),
                              DebugField("line", DebugLeaf(NatDigits(loc.line))),
                              DebugField("col", DebugLeaf(NatDigits(loc.col)))>>)

\* Debug for RefCell, of a cell that is not mutably borrowed
RefCell_debug(v) == DebugStruct("RefCell", <<DebugField("value", v)>>)

RECURSIVE Var_debug(_, _)
RECURSIVE Statement_debug(_, _)

\* impl Debug for LispValue; a Func without maybe_debug_info, which is every
\* Func, is "<function>"
LispValue_debug(heap_, v) ==
    CASE v.tag = "Integer" -> DebugTuple("Integer", DebugLeaf(IntDisplay(v.i)))
      [] v.tag = "Str" -> DebugTuple("Str", DebugLeaf(DebugStr(v.s)))
      [] v.tag = "Func" -> DebugTuple("Func", DebugLeaf(DebugStr(<<"<function>">>)))
      [] v.tag = "Statement" -> DebugTuple("Statement", Statement_debug(heap_, v))
      [] v.tag = "List" ->
            DebugTuple("List", DebugList([k \in 1..Len(v.l) |-> Var_debug(heap_, v.l[k])]))
      [] v.tag = "Floating" -> DebugTuple("Floating", DebugLeaf(F64Debug(v)))
      [] v.tag = "Nil" -> DebugLeaf(<<"Nil">>)
      [] v.tag = "Var" -> DebugPlain(Var_debug(heap_, v.c))

\* #[derive(Debug)] for Var, over Rc<RefCell<LispValue>>
Var_debug(heap_, c) ==
    DebugStruct("Var", <<DebugField("dat", RefCell_debug(LispValue_debug(heap_, heap_[c])))>>)

\* Debug for Option<Var>
Option_debug(heap_, res) ==
    IF res = 0 THEN DebugLeaf(<<"None">>) ELSE DebugTuple("Some", Var_debug(heap_, res))

\* #[derive(Debug)] for Statement
Statement_debug(heap_, stmt) ==
    DebugStruct("Statement",
        <<DebugField("args", DebugList([k \in 1..Len(stmt.args) |->
                                           Var_debug(heap_, stmt.args[k])])),
          DebugField("op", Var_debug(heap_, stmt.op)),
          DebugField("res", RefCell_debug(Option_debug(heap_, stmt.res))),
          DebugField("loc", Location_debug(stmt.loc))>>)

\* #[derive(Debug)] for TokenType and KeyWord
TokenType_debug(dat) ==
    CASE dat.t = "KeyWord" -> DebugTuple("KeyWord", DebugLeaf(<<dat.k>>))
      [] dat.t = "Recognizable" -> DebugTuple("Recognizable", LispValue_debug(<<>>, dat.v))
      [] dat.t = "Ident" -> DebugTuple("Ident", DebugLeaf(DebugStr(dat.id)))
      [] OTHER -> DebugLeaf(<<dat.t>>)

RECURSIVE fmt_plain(_)
RECURSIVE plain_fields(_, _)
RECURSIVE plain_items(_, _)

\* The fields of a struct on one line, from the k-th on: "name: value", with
\* ", " between two
plain_fields(fields, k) ==
    IF k > Len(fields) THEN <<>>
    ELSE (((IF k > 1 THEN <<", ">> ELSE <<>>) \o <<fields[k].name, ": ">>)
            \o fmt_plain(fields[k].v)) \o plain_fields(fields, k + 1)

\* The items of a list on one line, from the k-th on
plain_items(items, k) ==
    IF k > Len(items) THEN <<>>
    ELSE ((IF k > 1 THEN <<", ">> ELSE <<>>) \o fmt_plain(items[k]))
            \o plain_items(items, k + 1)

\* {:?}: the text of the value d
fmt_plain(d) ==
    CASE d.k = "leaf" -> d.text
      [] d.k = "plain" -> fmt_plain(d.v)
      [] d.k = "struct" -> (<<d.name, " { ">> \o plain_fields(d.fields, 1)) \o <<" }">>
      [] d.k = "tuple" -> (<<d.name, "(">> \o fmt_plain(d.v)) \o <<")">>
      [] d.k = "list" -> (<<"[">> \o plain_items(d.items, 1)) \o <<"]">>

\* PadAdapter: what is written inside a struct, tuple or list starts each
\* line with four spaces
PadAdapter(lines) == [i \in 1..Len(lines) |-> <<"    ">> \o lines[i]]

\* One field or item on lines of its own, ended by ","
pretty_entry(lines) == PadAdapter([lines EXCEPT ![Len(lines)] = @ \o <<",">>])

\* A named field: "name: " before its value
pretty_field(name, lines) == pretty_entry([lines EXCEPT ![1] = <<name, ": ">> \o @])

RECURSIVE fmt_pretty(_)
RECURSIVE pretty_fields(_, _)
RECURSIVE pretty_items(_, _)

pretty_fields(fields, k) ==
    IF k > Len(fields) THEN <<>>
    ELSE pretty_field(fields[k].name, fmt_pretty(fields[k].v)) \o pretty_fields(fields, k + 1)

pretty_items(items, k) ==
    IF k > Len(items) THEN <<>>
    ELSE pretty_entry(fmt_pretty(items[k])) \o pretty_items(items, k + 1)

\* {:#?}: the lines of the value d
fmt_pretty(d) ==
    CASE d.k = "leaf" -> <<d.text>>
      [] d.k = "plain" -> <<fmt_plain(d.v)>>
      [] d.k = "struct" -> (<<<<d.name, " {">>>> \o pretty_fields(d.fields, 1)) \o <<<<"}">>>>
      [] d.k = "tuple" -> (<<<<d.name, "(">>>> \o pretty_entry(fmt_pretty(d.v))) \o <<<<")">>>>
      [] d.k = "list" ->
            IF d.items = <<>> THEN <<<<"[]">>>>
            ELSE (<<<<"[">>>> \o pretty_items(d.items, 1)) \o <<<<"]">>>>

RECURSIVE JoinLines(_)
\* The lines as one text, "\n" between two
JoinLines(lines) ==
    IF Len(lines) = 1 THEN Head(lines)
    ELSE (Head(lines) \o <<"\n">>) \o JoinLines(Tail(lines))

\* println!("{} => {:?}", tok.loc, tok.dat), for each token in order
token_lines(toks) ==
    [k \in 1..Len(toks) |->
        (LocationDisplay(toks[k].loc) \o <<" => ">>) \o fmt_plain(TokenType_debug(toks[k].dat))]

\* println!("Ast = {ast:#?}")
ast_line(heap_, stmt) == <<"Ast = ">> \o JoinLines(fmt_pretty(Statement_debug(heap_, stmt)))

-----------------------------------------------------------------------------
(* run_lisp and run_lisp_dumped (src/src/lib.rs) as a state machine:       *)
(* tokenize, make_ast on a default Scope, then Statement::resolve on the   *)
(* Statement, which a caller may resolve again.  run_lisp_dumped prints    *)
(* the tokens after tokenize and the Statement after make_ast.             *)

InitWith(sources, dumps) ==
    /\ source \in sources
    /\ dump \in dumps
    /\ pc = "lex"
    /\ tokens = NoResult
    /\ scope = DefaultScope
    /\ heap = DefaultHeap
    /\ ast = NoResult
    /\ results = <<>>
    /\ out = <<>>
    /\ calls = 0
    /\ raised = 0
    /\ handles = <<>>
    /\ lisp_errors = LispErrors_new
    /\ overflow_checks \in BOOLEAN

Init == InitWith(ProgramSources, BOOLEAN)

\* tokens::tokenize
Tokenize ==
    /\ pc = "lex" /\ ~dump
    /\ tokens' = tokenize(source)
    /\ pc' = IF IsPanic(tokens') THEN "aborted" ELSE "parse"
    /\ UNCHANGED <<source, scope, heap, ast, results, out, calls, raised, handles, lisp_errors, overflow_checks, dump>>

\* run_lisp_dumped: tokenize, and a line for each token
TokenizeDumped ==
    /\ pc = "lex" /\ dump
    /\ tokens' = tokenize(source)
    /\ out' = IF IsOk(tokens') THEN out \o token_lines(tokens'.v) ELSE out
    /\ pc' = IF IsPanic(tokens') THEN "aborted" ELSE "parse"
    /\ UNCHANGED <<source, scope, heap, ast, results, calls, raised, handles, lisp_errors, overflow_checks, dump>>

\* make_ast followed at once by a resolution of the Statement it returns
ParseEager ==
    /\ pc = "parse" /\ ~dump
    /\ LET r == make_ast(tokens.v, [heap |-> heap, scope |-> scope], Location(0, 0))
           s == Var_resolve(NewVar(r.st.heap),
                            [heap |-> Var_new(r.st.heap, r.ret.stmt), out |-> out,
                             calls |-> calls, raised |-> raised,
         overflow_checks |-> overflow_checks, borrowed |-> {}])
       IN  /\ scope' = r.st.scope
           /\ heap' = IF r.ret.kind = "Ok" THEN s.ev.heap ELSE r.st.heap
           /\ out' = IF r.ret.kind = "Ok" THEN s.ev.out ELSE out
           /\ calls' = IF r.ret.kind = "Ok" THEN s.ev.calls ELSE calls
           /\ raised' = IF r.ret.kind = "Ok" THEN s.ev.raised ELSE raised
           /\ ast' = CASE r.ret.kind = "Ok" -> OkR(NewVar(r.st.heap))
                       [] r.ret.kind = "Err" -> ErrR(r.ret.e)
                       [] OTHER -> PanicR(r.ret.panic)
           /\ pc' = CASE r.ret.kind = "Ok" -> "eval"
                      [] r.ret.kind = "Err" -> "done"
                      [] OTHER -> "aborted"
    /\ UNCHANGED <<source, tokens, results, handles, lisp_errors, overflow_checks, dump>>

\* The state after make_ast gave r
Parse_done(r) ==
    /\ scope' = r.st.scope
    /\ heap' = IF r.ret.kind = "Ok" THEN Var_new(r.st.heap, r.ret.stmt) ELSE r.st.heap
    /\ ast' = CASE r.ret.kind = "Ok" -> OkR(NewVar(r.st.heap))
                [] r.ret.kind = "Err" -> ErrR(r.ret.e)
                [] OTHER -> PanicR(r.ret.panic)
    /\ pc' = CASE r.ret.kind = "Ok" -> "eval"
               [] r.ret.kind = "Err" -> "done"
               [] OTHER -> "aborted"

\* make_ast on the tokens and the Scope; the Statement it returns is kept in
\* a cell of its own, ast.v.
Parse ==
    /\ pc = "parse" /\ ~dump
    /\ Parse_done(make_ast(tokens.v, [heap |-> heap, scope |-> scope], Location(0, 0)))
    /\ UNCHANGED <<source, tokens, results, out, calls, raised, handles, lisp_errors, overflow_checks, dump>>

\* The state after make_ast gave r in run_lisp_dumped: the Statement is
\* printed when there is one
ParseDumped_done(r) ==
    /\ Parse_done(r)
    /\ out' = IF r.ret.kind = "Ok" THEN Append(out, ast_line(r.st.heap, r.ret.stmt)) ELSE out

\* run_lisp_dumped: make_ast, and the Statement it returned
ParseDumped ==
    /\ pc = "parse" /\ dump
    /\ ParseDumped_done(make_ast(tokens.v, [heap |-> heap, scope |-> scope], Location(0, 0)))
    /\ UNCHANGED <<source, tokens, results, calls, raised, handles, lisp_errors, overflow_checks, dump>>

\* The state after the resolution s of the Statement in ast.v
Resolve_done(s) ==
    /\ heap' = s.ev.heap
    /\ out' = s.ev.out
    /\ calls' = s.ev.calls
    /\ raised' = s.ev.raised
    /\ results' = Append(results, [r |-> s.r, out |-> s.ev.out, calls |-> s.ev.calls,
                                   res |-> s.ev.heap[ast.v].res])
    /\ pc' = IF IsPanic(s.r) THEN "aborted" ELSE "eval"

\* Statement::resolve on the Statement make_ast returned, in run_lisp and in
\* run_lisp_dumped, and again by a caller that kept it.  results records
\* what the call returned and, after it, the output, the number of calls of
\* callables and the Statement's result slot.
Resolve ==
    /\ pc = "eval"
    /\ Len(results) < MaxResolves
    /\ Resolve_done(Var_resolve(ast.v, [heap |-> heap, out |-> out, calls |-> calls,
                                    raised |-> raised, overflow_checks |-> overflow_checks, borrowed |-> {}]))
    /\ UNCHANGED <<source, tokens, scope, ast, handles, lisp_errors, overflow_checks, dump>>

Next == Tokenize \/ Parse \/ Resolve \/ TokenizeDumped \/ ParseDumped

Spec == Init /\ [][Next]_vars

\* The tokenizer alone, on every short source text
InitLex == InitWith(LexSources, {FALSE})
NextLex == Tokenize
SpecLex == InitLex /\ [][NextLex]_vars

-----------------------------------------------------------------------------
(* The Var API (src/src/ast.rs) as a state machine: a caller makes Vars    *)
(* with Var::new, Var::new_ref and Var::maybe_clone and writes through     *)
(* them with get_mut.  handles[h] is the h-th Var made: its cell, the Var  *)
(* it was made from, by which call, and whether that Var then held plain   *)
(* data.                                                                   *)

PlainValues == {Integer(Isize(1)), Integer(Isize(2)), Str(<<"q">>), Floating("num", FALSE, 15, -1), Nil}
NewValues ==
    PlainValues \cup {Func("Add"), StatementValue(<<>>, 2, 0, Location(0, 0))}

is_plain(v) == v.tag \in {"Integer", "Floating", "Str", "Nil"}

Handle(c, of, by, plain) == [var |-> c, of |-> of, by |-> by, plain |-> plain]

InitVars ==
    /\ source = <<>>
    /\ pc = "vars"
    /\ tokens = NoResult
    /\ scope = DefaultScope
    /\ heap = DefaultHeap
    /\ ast = NoResult
    /\ results = <<>>
    /\ out = <<>>
    /\ calls = 0
    /\ raised = 0
    /\ handles = <<>>
    /\ lisp_errors = LispErrors_new
    /\ overflow_checks \in BOOLEAN
    /\ dump = FALSE

\* The Lists of new_refs of one or two of the Vars hs
ListsOf(hs) ==
    {ListValue(<<hs[a].var>>) : a \in 1..Len(hs)}
        \cup {ListValue(<<hs[a].var, hs[b].var>>) : a, b \in 1..Len(hs)}

\* let h = Var::new(value)
VarNew ==
    /\ pc = "vars" /\ Len(handles) < MaxHandles
    /\ \E value \in NewValues \cup ListsOf(handles) :
          /\ heap' = Var_new(heap, value)
          /\ handles' = Append(handles, Handle(NewVar(heap), 0, "new", FALSE))
    /\ UNCHANGED <<source, pc, tokens, scope, ast, results, out, calls, raised, lisp_errors, overflow_checks, dump>>

\* let h = g.new_ref()
VarNewRef ==
    /\ pc = "vars" /\ Len(handles) < MaxHandles
    /\ \E g \in 1..Len(handles) :
          handles' = Append(handles, Handle(Var_new_ref(handles[g].var), g, "new_ref",
                                            is_plain(Var_get(heap, handles[g].var))))
    /\ UNCHANGED <<source, pc, tokens, scope, heap, ast, results, out, calls, raised, lisp_errors, overflow_checks, dump>>

\* let h = g.maybe_clone()
VarMaybeClone ==
    /\ pc = "vars" /\ Len(handles) < MaxHandles
    /\ \E g \in 1..Len(handles) :
          LET r == Var_maybe_clone(heap, handles[g].var)
          IN  /\ heap' = r.heap
              /\ handles' = IF r.panic # "" THEN handles
                             ELSE Append(handles, Handle(r.var, g, "maybe_clone",
                                                 is_plain(Var_get(heap, handles[g].var))))
              /\ pc' = IF r.panic # "" THEN "aborted" ELSE pc
    /\ UNCHANGED <<source, tokens, scope, ast, results, out, calls, raised, lisp_errors, overflow_checks, dump>>

\* *h.get_mut() = value
VarWrite ==
    /\ pc = "vars"
    /\ \E h \in 1..Len(handles), value \in PlainValues :
          heap' = Var_set(heap, handles[h].var, value)
    /\ UNCHANGED <<source, pc, tokens, scope, ast, results, out, calls, raised, handles, lisp_errors, overflow_checks, dump>>

NextVars == VarNew \/ VarNewRef \/ VarMaybeClone \/ VarWrite
SpecVars == InitVars /\ [][NextVars]_vars

-----------------------------------------------------------------------------
(* Properties of evaluation.  Root is the Statement make_ast returned, and *)
(* results[k] is what its k-th resolution returned and left behind.        *)

Parsed == pc \in {"eval", "done"} \/ (pc = "aborted" /\ ast # NoResult)
Resolved(k) == pc \in {"eval", "aborted"} /\ Len(results) >= k
Root == heap[ast.v]

\* The number of lines run_lisp_dumped has written of its own: one for each
\* token, and one for the Statement once make_ast has returned it
Dumped ==
    IF ~dump THEN 0
    ELSE (IF IsOk(tokens) THEN Len(tokens.v) ELSE 0) + (IF IsOk(ast) THEN 1 ELSE 0)

\* The lines of the standard output o that the callables wrote
Written(o) == SubSeq(o, Dumped + 1, Len(o))

\* The cells holding a Statement whose operator is the intrinsic f
StatementsOf(f) ==
    {c \in 1..Len(heap) : is_stmt(heap[c]) /\ heap[heap[c].op] = Func(f)}

\* An argument that is an integer literal, or a nested Statement whose last
\* resolution gave an Integer
IsIntegerArg(a) ==
    \/ heap[a].tag = "Integer"
    \/ /\ is_stmt(heap[a])
       /\ heap[a].res # 0
       /\ heap[heap[a].res].tag = "Integer"

\* The Integer such an argument stands for
ArgValue(a) == IF is_stmt(heap[a]) THEN heap[heap[a].res].i ELSE heap[a].i

IntegerArgs(c) == \A k \in 1..Len(heap[c].args) : IsIntegerArg(heap[c].args[k])

RECURSIVE SumOfArgs(_, _)
\* The sum of the arguments of `as` from the k-th on
SumOfArgs(as, k) ==
    IF k > Len(as) THEN Isize(0) ELSE WideAdd(ArgValue(as[k]), SumOfArgs(as, k + 1))

RECURSIVE ProductOfArgs(_, _)
\* The product of the arguments of `as` from the k-th on
ProductOfArgs(as, k) ==
    IF k > Len(as) THEN Isize(1) ELSE WideMul(ArgValue(as[k]), ProductOfArgs(as, k + 1))

\* The Integer the k-th resolution of the root returned
ResultValue(k) == heap[results[k].r.v]

\* C1: resolving the same Statement a second time, after a first resolution
\* that succeeded, returns the handle cached in its result slot without
\* calling the operator again: the result slot is not written again, no
\* callable is called and nothing more is printed.
C1_SecondResolveIsCached ==
    (Resolved(2) /\ IsOk(results[1].r)) =>
        /\ results[2].r = OkR(results[1].res)
        /\ results[2].res = results[1].res
        /\ results[2].calls = results[1].calls
        /\ results[2].out = results[1].out

\* C2: once a callable has raised an error during the resolution of the
\* root Statement, that resolution returns an error and never a value,
\* whatever operator encloses the failing statement.
C2_RaisedErrorPropagates ==
    (Resolved(1) /\ Len(results) = 1 /\ raised > 0) => IsErr(results[1].r)

\* C3: `+` on integer literals and nested statements resolving to integers
\* returns the Integer that is the sum of all its arguments, both for the
\* root Statement and for every nested one; (+ 34 35) and (+ 34 (+ 34 1))
\* are 69.
C3_AddSums ==
    /\ \A c \in StatementsOf("Add") :
          (heap[c].res # 0 /\ IntegerArgs(c)) =>
              heap[heap[c].res] = Integer(SumOfArgs(heap[c].args, 1))
    /\ (Resolved(1) /\ ast.v \in StatementsOf("Add") /\ IntegerArgs(ast.v)) =>
          \A k \in 1..Len(results) :
              /\ IsOk(results[k].r)
              /\ ResultValue(k) = Integer(SumOfArgs(Root.args, 1))
    /\ (Resolved(1) /\ source \in {Unwords(Ex_add), Unwords(Ex_add_nested)}) =>
          (IsOk(results[1].r) /\ ResultValue(1) = Integer(Isize(69)))

\* (+ 9223372036854775807 1) has been resolved: to a panic in a build with
\* overflow checks, to isize::MIN in a build without them
C3_SumOverflows ==
    /\ Resolved(1)
    /\ source = Unwords(Ex_add_overflow)
    /\ IntegerArgs(ast.v)
    /\ IF overflow_checks
       THEN results[1].r = PanicR("attempt to add with overflow")
       ELSE IsOk(results[1].r) /\ ResultValue(1) = Integer(isize_MIN)

\* C4: on a non-empty list of integer arguments `-` returns the first
\* argument minus each of the others and `*` returns the product of all of
\* them; (- 10 3 2) is 5 and (* 2 3 4) is 24.
C4_SubtractMultiplyFold ==
    /\ (Resolved(1) /\ ast.v \in StatementsOf("Subtract") /\ Root.args # <<>>
            /\ IntegerArgs(ast.v)) =>
          \A k \in 1..Len(results) :
              /\ IsOk(results[k].r)
              /\ ResultValue(k) = Integer(WideSub(ArgValue(Root.args[1]), SumOfArgs(Root.args, 2)))
    /\ (Resolved(1) /\ ast.v \in StatementsOf("Multiply") /\ Root.args # <<>>
            /\ IntegerArgs(ast.v)) =>
          \A k \in 1..Len(results) :
              /\ IsOk(results[k].r)
              /\ ResultValue(k) = Integer(ProductOfArgs(Root.args, 1))
    /\ (Resolved(1) /\ source = Unwords(Ex_sub)) =>
          (IsOk(results[1].r) /\ ResultValue(1) = Integer(Isize(5)))
    /\ (Resolved(1) /\ source = Unwords(Ex_mul)) =>
          (IsOk(results[1].r) /\ ResultValue(1) = Integer(Isize(24)))

\* (* 9223372036854775807 2) has been resolved: to a panic in a build with
\* overflow checks, to -2 in a build without them
C4_ProductOverflows ==
    /\ Resolved(1)
    /\ source = Unwords(Ex_mul_overflow)
    /\ IntegerArgs(ast.v)
    /\ IF overflow_checks
       THEN results[1].r = PanicR("attempt to multiply with overflow")
       ELSE IsOk(results[1].r) /\ ResultValue(1) = Integer(Isize(-2))

\* The first argument of the root Statement that is a string literal, when
\* its arguments are integer and string literals only; 0 if there is none
FirstStrArg ==
    IF \A k \in 1..Len(Root.args) : heap[Root.args[k]].tag \in {"Integer", "Str"}
    THEN IF \E k \in 1..Len(Root.args) : heap[Root.args[k]].tag = "Str"
         THEN CHOOSE k \in 1..Len(Root.args) :
                  /\ heap[Root.args[k]].tag = "Str"
                  /\ \A j \in 1..(k - 1) : heap[Root.args[j]].tag = "Integer"
         ELSE 0
    ELSE 0

\* C5: when an argument of `+`, `-` or `*` is a string literal, the call
\* returns an error, never a value, and the text of the error holds the
\* display form of that argument.
C5_TypeErrorNamesValue ==
    (Resolved(1) /\ ast.v \in StatementsOf("Add") \cup StatementsOf("Subtract")
                                  \cup StatementsOf("Multiply")
        /\ FirstStrArg > 0) =>
            /\ IsErr(results[1].r)
            /\ Contains(LispErrorsDisplay(results[1].r.e), heap[Root.args[FirstStrArg]].s)

-----------------------------------------------------------------------------
(* Properties of parsing.  Toks is what tokenize returned; the parse of    *)
(* another token sequence is make_ast on the default Scope.                *)

Toks == tokens.v

IsStart(tok) == tok.dat.t = "StartStmt"
IsEnd(tok) == tok.dat.t = "EndStmt"

KeywordFree(ts) == \A k \in 1..Len(ts) : ts[k].dat.t # "KeyWord"

\* make_ast accepts ts as a statement
ParsesOk(ts) == make_ast(ts, DefaultStore, Location(0, 0)).ret.kind = "Ok"

\* ts without its k-th token
Remove(ts, k) == SubSeq(ts, 1, k - 1) \o SubSeq(ts, k + 1, Len(ts))

RECURSIVE DepthAfter(_, _)
\* Number of start markers still open after the first k tokens; -1 once an
\* end marker had no start marker to close
DepthAfter(ts, k) ==
    IF k = 0 THEN 0
    ELSE LET d == DepthAfter(ts, k - 1)
         IN  IF d < 0 THEN d
             ELSE IF IsStart(ts[k]) THEN d + 1
             ELSE IF IsEnd(ts[k]) THEN d - 1
             ELSE d

\* Every start marker has its end marker
Balanced(ts) == DepthAfter(ts, Len(ts)) = 0

\* An identifier token whose name the default Scope does not bind
IsUnbound(tok) == tok.dat.t = "Ident" /\ tok.dat.id \notin DOMAIN DefaultScope

\* ts with every unbound identifier replaced by a bound one
Rebound(ts) ==
    [k \in 1..Len(ts) |-> IF IsUnbound(ts[k]) THEN Token(ts[k].loc, Ident(W_plus)) ELSE ts[k]]

\* The first unbound identifier token of ts
FirstUnbound(ts) ==
    ts[CHOOSE k \in 1..Len(ts) : IsUnbound(ts[k]) /\ \A j \in 1..(k - 1) : ~IsUnbound(ts[j])]

UnknownIdentifierError(tok) ==
    LispErrors_error(LispErrors_new, tok.loc,
                     <<"Unknown identifier ", BackTick>> \o tok.dat.id \o <<BackTick, "!">>)

\* A statement without keywords that make_ast would accept were its unbound
\* identifiers bound
HasUnknownIdentifier ==
    /\ Parsed
    /\ IsOk(tokens)
    /\ KeywordFree(Toks)
    /\ \E k \in 1..Len(Toks) : IsUnbound(Toks[k])
    /\ ParsesOk(Rebound(Toks))

\* C6: parsing a statement in which an identifier, at any depth, is not
\* bound in the Scope yields no Statement but the unknown-identifier error
\* at the location of that identifier's token.
C6_UnknownIdentifier ==
    HasUnknownIdentifier =>
        /\ pc = "done"
        /\ ast = ErrR(UnknownIdentifierError(FirstUnbound(Toks)))

\* (+ 1 (foo 2)) has been parsed: the unbound name is in a nested statement
C6_Witness ==
    /\ HasUnknownIdentifier
    /\ source = Unwords(Ex_foo_nested)
    /\ IsErr(ast)
    /\ DepthAfter(Toks, CHOOSE k \in 1..Len(Toks) : IsUnbound(Toks[k])) = 2

RECURSIVE MatchingEnd(_, _, _)
\* The index of the end marker that closes the start marker at k (depth 0
\* there); 0 if there is none
MatchingEnd(ts, k, depth) ==
    IF k > Len(ts) THEN 0
    ELSE IF IsStart(ts[k]) THEN MatchingEnd(ts, k + 1, depth + 1)
    ELSE IF IsEnd(ts[k])
    THEN IF depth = 1 THEN k ELSE MatchingEnd(ts, k + 1, depth - 1)
    ELSE MatchingEnd(ts, k + 1, depth)

RECURSIVE FirstRebinding(_, _, _)
\* The first of the Identifiers vals, from the j-th on, whose name is in
\* bound or is the name of an earlier one; 0 if there is none
FirstRebinding(vals, j, bound) ==
    IF j > Len(vals) THEN 0
    ELSE IF vals[j].ident \in bound THEN j
    ELSE FirstRebinding(vals, j + 1, bound \cup {vals[j].ident})

RECURSIVE BindFirst(_, _, _)
\* The Scope map sc with the first n of the Identifiers vals bound
BindFirst(sc, vals, n) ==
    IF n = 0 THEN sc
    ELSE ScopeInsert(BindFirst(sc, vals, n - 1), vals[n].ident, vals[n].data)

ShadowingError(loc) ==
    LispErrors_note(
        LispErrors_error(LispErrors_new, loc, <<"Shadowing is not currently allowed!">>),
        <<"Change its name.">>)

NoRebinding == [some |-> FALSE, at |-> Identifier(<<>>, 0, Location(0, 0)), scope |-> DefaultScope]

RECURSIVE LetRebinding(_, _, _)
\* For let forms in a row from token k on, each a keyword and a binding
\* list that process_identifiers accepts: the first Identifier that names an
\* already bound name, and the Scope map when it is introduced
LetRebinding(ts, k, st) ==
    IF ~(k + 1 <= Len(ts) /\ ts[k].dat = KeyWord("Let") /\ IsStart(ts[k + 1]))
    THEN NoRebinding
    ELSE LET e == MatchingEnd(ts, k + 1, 0)
             q == process_identifiers(SubSeq(ts, k + 2, e - 1), st.heap, st.scope)
             j == FirstRebinding(q.to_introduce, 1, DOMAIN st.scope)
         IN  IF e = 0 \/ e = Len(ts) THEN NoRebinding
             ELSE IF q.ret.kind # "None" THEN NoRebinding
             ELSE IF j > 0
             THEN [some |-> TRUE, at |-> q.to_introduce[j],
                   scope |-> BindFirst(st.scope, q.to_introduce, j - 1)]
             ELSE LetRebinding(ts, e + 1,
                               [heap |-> q.heap,
                                scope |-> BindFirst(st.scope, q.to_introduce,
                                                    Len(q.to_introduce))])

\* The statement (let (...) let (...) ... body) that was parsed introduces
\* a name that is already bound
Rebinds ==
    /\ Parsed
    /\ IsOk(tokens)
    /\ Len(Toks) >= 2
    /\ IsStart(Toks[1])
    /\ LetRebinding(Toks, 2, DefaultStore).some

\* C7: introducing a name that the Scope already binds (an intrinsic, a name
\* of an earlier let, an earlier binding of the same list) fails with the
\* shadowing error, and the Scope, with the existing binding of that name,
\* is as it was: both for introduce_identifier on the Scope of every state
\* and for the parse of a statement that begins with let forms.
C7_ShadowingIsRejected ==
    /\ \A n \in DOMAIN scope : \A v \in {1, Len(heap)} :
          introduce_identifier([heap |-> heap, scope |-> scope], n, v, Location(0, 0))
              = [st |-> [heap |-> heap, scope |-> scope],
                 ret |-> ParseErr(ShadowingError(Location(0, 0)))]
    /\ Rebinds =>
          /\ pc = "done"
          /\ ast = ErrR(ShadowingError(LetRebinding(Toks, 2, DefaultStore).at.loc_introduced))
          /\ scope = LetRebinding(Toks, 2, DefaultStore).scope
    /\ (Parsed /\ source = Unwords(Ex_let_twice)) =>
          /\ IsErr(ast)
          /\ ast.e[1].notes = <<<<"NOTE: ", "Change its name.">>>>
          /\ heap[scope[W_x]] = Integer(Isize(1))

\* (let ((x 1) (x 2)) x) has been parsed: x was bound by the first binding
\* of the list when the second one was introduced
C7_Witness ==
    /\ Rebinds
    /\ source = Unwords(Ex_let_twice)
    /\ W_x \in DOMAIN scope
    /\ LetRebinding(Toks, 2, DefaultStore).at.ident = W_x

\* A name of an earlier let form is introduced again by a later one
C7_WitnessEarlierLet ==
    /\ Rebinds
    /\ Cardinality({k \in 1..Len(Toks) : Toks[k].dat = KeyWord("Let")}) = 2
    /\ LetRebinding(Toks, 2, DefaultStore).at.ident = W_x
    /\ W_x \in DOMAIN scope
    /\ IsErr(ast)

\* The k-th token of ts is a start or end marker without a partner: it is
\* all of ts, or ts without it is a balanced statement that make_ast accepts
IsLoneParen(ts, k) ==
    /\ IsStart(ts[k]) \/ IsEnd(ts[k])
    /\ \/ Len(ts) = 1
       \/ Balanced(Remove(ts, k)) /\ ParsesOk(Remove(ts, k))

\* The locations a parse of the tokens of the source can name
ParseLocations == {Location(0, 0)} \cup {Toks[k].loc : k \in 1..Len(Toks)}

\* The error of an unmatched marker: one entry, the message what, and a note
\* telling to delete it
IsUnmatchedError(e, what) ==
    /\ Len(e) = 1
    /\ \E l \in ParseLocations : e[1].msg = (LocationDisplay(l) \o <<" - ">>) \o <<what>>
    /\ e[1].notes \in {<<<<"NOTE: ", "Delete it.">>>>,
                       <<<<"NOTE: ", "Deleting it might fix this error.">>>>}

\* C8: a lone start or end marker anywhere in the input (all of it, first,
\* last or in the middle) makes the parse fail with the unmatched-opening,
\* respectively unmatched-closing, parenthesis error and its note.
C8_LoneParenIsUnmatched ==
    (Parsed /\ IsOk(tokens) /\ KeywordFree(Toks)) =>
        \A k \in 1..Len(Toks) :
            IsLoneParen(Toks, k) =>
                /\ IsErr(ast)
                /\ IsUnmatchedError(ast.e, IF IsStart(Toks[k])
                                           THEN "Unmatched opening parentheses!"
                                           ELSE "Unmatched closing parentheses!")

\* A state where a lone marker in the middle was reported as unmatched
C8_Reported ==
    /\ Parsed /\ IsOk(tokens) /\ KeywordFree(Toks)
    /\ \E k \in 2..(Len(Toks) - 1) :
          /\ IsLoneParen(Toks, k)
          /\ IsErr(ast)
          /\ IsUnmatchedError(ast.e, IF IsStart(Toks[k])
                                     THEN "Unmatched opening parentheses!"
                                     ELSE "Unmatched closing parentheses!")

\* ts has an empty statement span: a start marker and at once its end marker
HasEmptySpan(ts) == \E k \in 1..(Len(ts) - 1) : IsStart(ts[k]) /\ IsEnd(ts[k + 1])

RECURSIVE WithoutEmptySpans(_)
\* ts with its empty statement spans taken out, until none is left
WithoutEmptySpans(ts) ==
    IF ~HasEmptySpan(ts) THEN ts
    ELSE LET k == CHOOSE i \in 1..(Len(ts) - 1) : IsStart(ts[i]) /\ IsEnd(ts[i + 1])
         IN  WithoutEmptySpans(SubSeq(ts, 1, k - 1) \o SubSeq(ts, k + 2, Len(ts)))

\* A balanced statement without keywords whose only defect is an empty span:
\* without its empty spans nothing is left, or a statement make_ast accepts
OnlyEmptySpans(ts) ==
    /\ KeywordFree(ts)
    /\ Balanced(ts)
    /\ HasEmptySpan(ts)
    /\ WithoutEmptySpans(ts) = <<>> \/ ParsesOk(WithoutEmptySpans(ts))

IsEmptyStatementError(e) == \E l \in ParseLocations : e = EmptyStatementError(l)

\* C9: an empty statement span, be it the whole input or nested at any depth
\* of a statement, is rejected with the error "Empty statements are not
\* allowed!".
C9_EmptySpanIsRejected ==
    (Parsed /\ IsOk(tokens) /\ OnlyEmptySpans(Toks)) =>
        (IsErr(ast) /\ IsEmptyStatementError(ast.e))

\* The same for a statement written with its start and end markers
C9_WrappedEmptySpanIsRejected ==
    (Parsed /\ IsOk(tokens) /\ OnlyEmptySpans(Toks)
        /\ IsStart(Toks[1]) /\ MatchingEnd(Toks, 1, 0) = Len(Toks)) =>
        (IsErr(ast) /\ IsEmptyStatementError(ast.e))

\* (+ 1 ()) has been parsed and rejected as holding an empty statement
C9_Reported ==
    /\ Parsed /\ IsOk(tokens) /\ OnlyEmptySpans(Toks)
    /\ source = Unwords(Ex_empty_nested)
    /\ IsErr(ast) /\ IsEmptyStatementError(ast.e)

-----------------------------------------------------------------------------
(* Properties of the tokenizer, against a reading of the source text by    *)
(* lexemes: markers, quoted strings, and bare tokens between them.         *)

Lexed == pc # "lex"

\* The index of the first character c of s from k on; 0 if there is none
RECURSIVE NextIndexOf(_, _, _)
NextIndexOf(s, c, k) ==
    IF k > Len(s) THEN 0 ELSE IF s[k] = c THEN k ELSE NextIndexOf(s, c, k + 1)

\* The characters that end a bare token
Delimiters == {"(", ")", " ", "\""}

RECURSIVE BareEnd(_, _)
\* The index of the last character of the bare token that begins at k
BareEnd(s, k) ==
    IF k + 1 > Len(s) \/ s[k + 1] \in Delimiters THEN k ELSE BareEnd(s, k + 1)

\* The token of a bare lexeme: digits are an integer literal, other text an
\* identifier
BareToken(w) == IF IsDigits(w) THEN Recognizable(Integer(Wide(FALSE, MagOf(w)))) ELSE Ident(w)

RECURSIVE LexemeTokens(_, _)
\* One token for every marker, quoted string and bare token of s from the
\* k-th character on, in the order of the source
LexemeTokens(s, k) ==
    IF k > Len(s) THEN <<>>
    ELSE IF s[k] = "(" THEN <<StartStmt>> \o LexemeTokens(s, k + 1)
    ELSE IF s[k] = ")" THEN <<EndStmt>> \o LexemeTokens(s, k + 1)
    ELSE IF s[k] = " " THEN LexemeTokens(s, k + 1)
    ELSE IF s[k] = "\""
    THEN <<new_str_lit(SubSeq(s, k + 1, NextIndexOf(s, "\"", k + 1) - 1))>>
             \o LexemeTokens(s, NextIndexOf(s, "\"", k + 1) + 1)
    ELSE <<BareToken(SubSeq(s, k, BareEnd(s, k)))>> \o LexemeTokens(s, BareEnd(s, k) + 1)

RECURSIVE WellDelimited(_, _)
\* From the k-th character on, every quoted string of s is closed and every
\* bare token is followed by a space or an end marker, and is no keyword
WellDelimited(s, k) ==
    IF k > Len(s) THEN TRUE
    ELSE IF s[k] \in {"(", ")", " "} THEN WellDelimited(s, k + 1)
    ELSE IF s[k] = "\""
    THEN /\ NextIndexOf(s, "\"", k + 1) > 0
         /\ WellDelimited(s, NextIndexOf(s, "\"", k + 1) + 1)
    ELSE /\ BareEnd(s, k) < Len(s)
         /\ s[BareEnd(s, k) + 1] \in {" ", ")"}
         /\ SubSeq(s, k, BareEnd(s, k)) \notin {W_let, W_lambda}
         /\ WellDelimited(s, BareEnd(s, k) + 1)

\* A source of one line
SingleLine(s) == \A k \in 1..Len(s) : s[k] # "\n"

\* The TokenTypes of the tokens, in order
TokenTypes(ts) == [k \in 1..Len(ts) |-> ts[k].dat]

\* C10: for a source of one line in which every bare token is followed by a
\* space or an end marker, tokenize gives one token for every marker, quoted
\* string and bare token, in the order of the source; the source of the
\* tokenizer test gives start, +, start, -, 1, 23, 23423423, end, the string
\* sliijioo, end.
C10_OneTokenPerLexeme ==
    /\ (Lexed /\ SingleLine(source) /\ WellDelimited(source, 1)) =>
          /\ IsOk(tokens)
          /\ TokenTypes(Toks) = LexemeTokens(source, 1)
    /\ (Lexed /\ source = Ex_tokenizer) =>
          /\ IsOk(tokens)
          /\ TokenTypes(Toks) =
                <<StartStmt, Ident(W_plus), StartStmt, Ident(W_minus),
                  Recognizable(Integer(Isize(1))), Recognizable(Integer(Isize(23))),
                  Recognizable(Integer(Isize(23423423))), EndStmt,
                  Recognizable(Str(<<"s", "l", "i", "i", "j", "i", "o", "o">>)), EndStmt>>

\* The same for a source that does not end with a space after a bare token
C10_UntrimmedSource ==
    (Lexed /\ SingleLine(source) /\ WellDelimited(source, 1)
        /\ source # <<>> /\ source[Len(source)] # " ") =>
          /\ IsOk(tokens)
          /\ TokenTypes(Toks) = LexemeTokens(source, 1)

RECURSIVE LexemeStarts(_, _)
\* The column (from 0) at which each marker, quoted string and bare token of
\* s begins, from the k-th character on, in the order of the source
LexemeStarts(s, k) ==
    IF k > Len(s) THEN <<>>
    ELSE IF s[k] \in {"(", ")"} THEN <<k - 1>> \o LexemeStarts(s, k + 1)
    ELSE IF s[k] = " " THEN LexemeStarts(s, k + 1)
    ELSE IF s[k] = "\""
    THEN <<k - 1>> \o LexemeStarts(s, NextIndexOf(s, "\"", k + 1) + 1)
    ELSE <<k - 1>> \o LexemeStarts(s, BareEnd(s, k) + 1)

\* The Locations of the tokens, in order
TokenLocations(ts) == [k \in 1..Len(ts) |-> ts[k].loc]

\* The Locations on line 0 at the columns cols
OnLineZero(cols) == [k \in 1..Len(cols) |-> Location(0, cols[k])]

\* C11: every token carries the line and the column at which its text begins
\* in the source, for every one-line source whose lexemes tokenize gives one
\* token each; in the source of the tokenizer test the start tokens are at
\* columns 0 and 3, + at 1, - at 4, the integers at 6, 8 and 11 and the end
\* tokens at 19 and 31.
C11_TokenLocationIsWhereItBegins ==
    /\ (Lexed /\ SingleLine(source) /\ WellDelimited(source, 1) /\ IsOk(tokens)
            /\ TokenTypes(Toks) = LexemeTokens(source, 1)) =>
          TokenLocations(Toks) = OnLineZero(LexemeStarts(source, 1))
    /\ (Lexed /\ source = Ex_tokenizer) =>
          /\ IsOk(tokens)
          /\ Len(Toks) = 10
          /\ [k \in {1, 2, 3, 4, 5, 6, 7, 8, 10} |-> Toks[k].loc.col]
                = [k \in {1, 2, 3, 4, 5, 6, 7, 8, 10} |->
                      <<0, 1, 3, 4, 6, 8, 11, 19, 0, 31>>[k]]

\* n end-statement TokenTypes
Ends(n) == [i \in 1..n |-> EndStmt]

RECURSIVE SumOf(_)
SumOf(ns) == IF ns = <<>> THEN 0 ELSE Head(ns) + SumOf(Tail(ns))

RECURSIVE WrappedTokens(_, _, _)
\* The tokens of s from the k-th character on when a `$` opens a statement
\* that the end of its enclosing statement closes.  pend holds, for the top
\* level and then for every statement open at k, how many `$` it has seen.
WrappedTokens(s, k, pend) ==
    IF k > Len(s) THEN Ends(SumOf(pend))
    ELSE IF s[k] = "(" THEN <<StartStmt>> \o WrappedTokens(s, k + 1, Append(pend, 0))
    ELSE IF s[k] = ")"
    THEN (Ends(pend[Len(pend)]) \o <<EndStmt>>)
             \o WrappedTokens(s, k + 1, IF Len(pend) = 1 THEN <<0>> ELSE Pop(pend))
    ELSE IF s[k] = " " THEN WrappedTokens(s, k + 1, pend)
    ELSE IF s[k] = "$"
    THEN <<StartStmt>> \o WrappedTokens(s, k + 1, [pend EXCEPT ![Len(pend)] = @ + 1])
    ELSE IF s[k] = "\""
    THEN <<new_str_lit(SubSeq(s, k + 1, NextIndexOf(s, "\"", k + 1) - 1))>>
             \o WrappedTokens(s, NextIndexOf(s, "\"", k + 1) + 1, pend)
    ELSE <<BareToken(SubSeq(s, k, BareEnd(s, k)))>> \o WrappedTokens(s, BareEnd(s, k) + 1, pend)

RECURSIVE WellWrapped(_, _, _)
\* From the k-th character on, at depth d of the parentheses: every `(` has
\* its `)`, every `$` stands alone before a space or the end, every quoted
\* string is closed, and every bare token is followed by a space or a `)`,
\* holds no `$` and is no keyword
WellWrapped(s, k, d) ==
    IF k > Len(s) THEN d = 0
    ELSE IF s[k] = "(" THEN WellWrapped(s, k + 1, d + 1)
    ELSE IF s[k] = ")" THEN d > 0 /\ WellWrapped(s, k + 1, d - 1)
    ELSE IF s[k] = " " THEN WellWrapped(s, k + 1, d)
    ELSE IF s[k] = "$"
    THEN (k = Len(s) \/ s[k + 1] = " ") /\ WellWrapped(s, k + 1, d)
    ELSE IF s[k] = "\""
    THEN /\ NextIndexOf(s, "\"", k + 1) > 0
         /\ WellWrapped(s, NextIndexOf(s, "\"", k + 1) + 1, d)
    ELSE /\ BareEnd(s, k) < Len(s)
         /\ s[BareEnd(s, k) + 1] \in {" ", ")"}
         /\ \A i \in k..BareEnd(s, k) : s[i] # "$"
         /\ SubSeq(s, k, BareEnd(s, k)) \notin {W_let, W_lambda}
         /\ WellWrapped(s, BareEnd(s, k) + 1, d)

HasWrap(s) == \E k \in 1..Len(s) : s[k] = "$"

\* C12: the start token of a `$` is matched by an end token at the `)` that
\* closes the statement holding the `$`, or at the end of the input, so that
\* everything written after the `$` in that statement, nested statements and
\* the arguments after them included, lies inside the wrap.
C12_WrapClosesWithItsStatement ==
    (Lexed /\ SingleLine(source) /\ HasWrap(source) /\ WellWrapped(source, 1, 0)) =>
        /\ IsOk(tokens)
        /\ TokenTypes(Toks) = WrappedTokens(source, 1, <<0>>)

\* A `$` whose statement holds no nested statement after it has been
\* tokenized, to the expected tokens
C12_SimpleWrap ==
    /\ Lexed /\ source = Unwords(Ex_wrap_print) /\ IsOk(tokens)
    /\ TokenTypes(Toks) = WrappedTokens(source, 1, <<0>>)

-----------------------------------------------------------------------------
(* C13: comments                                                           *)

RECURSIVE StripComments(_, _, _)
\* The text s from its k-th character on without its comments; mode is
\* "Normal" or "String". A line comment runs from `//` to the end of its
\* line, a block comment from `{*` to the next `*}`; neither starts inside
\* a string literal.
StripComments(s, k, mode) ==
    IF k > Len(s) THEN <<>>
    ELSE IF mode = "String"
    THEN <<s[k]>> \o StripComments(s, k + 1, IF s[k] = "\"" THEN "Normal" ELSE "String")
    ELSE IF s[k] = "\"" THEN <<s[k]>> \o StripComments(s, k + 1, "String")
    ELSE IF k < Len(s) /\ s[k] = "/" /\ s[k + 1] = "/"
    THEN IF NextIndexOf(s, "\n", k) = 0 THEN <<>>
         ELSE StripComments(s, NextIndexOf(s, "\n", k), "Normal")
    ELSE IF k < Len(s) /\ s[k] = "{" /\ s[k + 1] = "*"
    THEN IF \E e \in (k + 2)..(Len(s) - 1) : s[e] = "*" /\ s[e + 1] = "}"
         THEN StripComments(s, 2 + CHOOSE e \in (k + 2)..(Len(s) - 1) :
                                     /\ s[e] = "*" /\ s[e + 1] = "}"
                                     /\ \A f \in (k + 2)..(e - 1) :
                                            ~(s[f] = "*" /\ s[f + 1] = "}"),
                            "Normal")
         ELSE <<>>
    ELSE <<s[k]>> \o StripComments(s, k + 1, "Normal")

HasComment(s) == StripComments(s, 1, "Normal") # s

\* C13: the tokens of a source with a line comment or a block comment are
\* the tokens of the same source with the comment, delimiters included,
\* removed: no character of a comment appears as or inside a token.
C13_CommentsContributeNothing ==
    (Lexed /\ HasComment(source)) =>
        /\ IsOk(tokens)
        /\ TokenTypes(Toks) = TokenTypes(tokenize(StripComments(source, 1, "Normal")).v)

\* A source with a comment after its last token has been tokenized, to the
\* tokens of the source without the comment
C13_TrailingComment ==
    /\ Lexed /\ IsOk(tokens)
    /\ source = Unwords(Ex_mul) \o <<"{", "*", "c", "*", "}">>
    /\ TokenTypes(Toks) = TokenTypes(tokenize(Unwords(Ex_mul)).v)

-----------------------------------------------------------------------------
(* C14: a statement without its outer start/end pair                       *)

\* The tokens between the first and the last token
Inner(ts) == SubSeq(ts, 2, Len(ts) - 1)

\* ts is `operator argument*` in one start/end pair: the pair encloses a
\* balanced, keyword-free sequence that begins with an identifier
IsWrappedCall(ts) ==
    /\ Len(ts) >= 3
    /\ IsStart(ts[1]) /\ IsEnd(ts[Len(ts)])
    /\ Balanced(Inner(ts))
    /\ KeywordFree(ts)
    /\ ts[2].dat.t = "Ident"

\* make_ast on ts and the default Scope returns a Statement with the operator
\* and the arguments of the Statement stmt, in the cells of the heap h
ParsesTo(ts, stmt, h) ==
    LET r == make_ast(ts, DefaultStore, Location(0, 0))
    IN  /\ r.ret.kind = "Ok"
        /\ r.ret.stmt.op = stmt.op
        /\ r.ret.stmt.args = stmt.args
        /\ \A c \in 1..Len(r.st.heap) : c <= Len(h) /\ r.st.heap[c] = h[c]

\* C14: when `operator argument*` in one start/end pair parses to a
\* Statement, the same tokens without the pair parse to a Statement with the
\* same operator and the same arguments.
C14_WrapperIsOptional ==
    (pc = "eval" /\ results = <<>> /\ IsWrappedCall(Toks)) =>
        ParsesTo(Inner(Toks), Root, heap)

\* A wrapped call of literals has been parsed, and parses to the same
\* Statement without its pair
C14_FlatCallUnwrapped ==
    /\ pc = "eval" /\ results = <<>> /\ source = Unwords(Ex_add)
    /\ IsWrappedCall(Toks)
    /\ ParsesTo(Inner(Toks), Root, heap)

-----------------------------------------------------------------------------
(* C15: the operator of a Statement                                        *)

\* The cells holding a Statement
StatementCells == {c \in 1..Len(heap) : is_stmt(heap[c])}

\* C15: the operator handle of every Statement the parser has built, nested
\* and flattened ones included, holds a Func, and no resolution ends in the
\* panic of unwrap_func.
C15_OperatorHoldsFunc ==
    /\ \A c \in StatementCells : is_func(heap[heap[c].op])
    /\ \A k \in 1..Len(results) :
           ~(IsPanic(results[k].r) /\ results[k].r.panic = "Expected to be LispType::Func")

\* A Statement with a nested Statement has been parsed and resolved
C15_NestedResolved ==
    /\ Resolved(1) /\ IsOk(results[1].r)
    /\ \E c \in StatementCells : c # ast.v
    /\ is_func(heap[Root.op])

\* A Statement that was the only value of its enclosing pair has been
\* returned in place of the enclosing statement, and resolved
C15_FlattenedResolved ==
    /\ Resolved(1) /\ IsOk(results[1].r)
    /\ \E c \in 1..Len(heap) : heap[c] = Moved
    /\ is_func(heap[Root.op])

-----------------------------------------------------------------------------
(* C16: aliasing of Vars                                                   *)

\* What is observed through the Var h
Observed(h) == Var_get(heap, handles[h].var)

RECURSIVE RefRoot(_)
\* The Var that h goes back to through new_ref calls
RefRoot(h) == IF handles[h].by = "new_ref" THEN RefRoot(handles[h].of) ELSE h

\* g and h were obtained from one another by new_ref calls
SharedByNewRef(g, h) == RefRoot(g) = RefRoot(h)

\* g goes back through new_ref calls to a maybe_clone of a Var that held
\* plain data and that was obtained from h, or h from it, by new_ref calls
PlainCloneOf(g, h) ==
    /\ handles[RefRoot(g)].by = "maybe_clone"
    /\ handles[RefRoot(g)].plain
    /\ SharedByNewRef(handles[RefRoot(g)].of, h)

\* C16: whenever a write changes what is observed through a Var h, the
\* value written is observed through every Var obtained from h, or h from
\* it, by new_ref, and what is observed through a maybe_clone of plain data,
\* taken of h or h being one, stays what it was.
C16_WritesAreSharedByNewRefOnly ==
    [][\A h \in 1..Len(handles) :
          (Len(handles') = Len(handles) /\ Var_get(heap', handles[h].var) # Observed(h)) =>
              \A g \in 1..Len(handles) :
                  /\ SharedByNewRef(g, h) =>
                        Var_get(heap', handles[g].var) = Var_get(heap', handles[h].var)
                  /\ (PlainCloneOf(g, h) \/ PlainCloneOf(h, g)) =>
                        Var_get(heap', handles[g].var) = Observed(g)]_vars

\* A Var, a new_ref of it and a maybe_clone of it taken while it held plain
\* data, after a write: the first two observe one value, the clone another
C16_Witness ==
    \E a, b, c \in 1..Len(handles) :
        /\ handles[b].by = "new_ref" /\ handles[b].of = a
        /\ handles[c].by = "maybe_clone" /\ handles[c].of = a /\ handles[c].plain
        /\ Observed(a) = Observed(b)
        /\ Observed(a) # Observed(c)

-----------------------------------------------------------------------------
(* C17: print                                                              *)

\* The display of the Var c and what displaying it writes, on the heap as
\* it is now
DisplayNow(c) == Var_display(c, [heap |-> heap, out |-> <<>>, calls |-> 0, raised |-> 0,
                               overflow_checks |-> overflow_checks, borrowed |-> {}])

\* The output before the k-th resolution of the root
OutBefore(k) == IF k = 1 THEN SubSeq(out, 1, Dumped) ELSE results[k - 1].out

\* The k-th resolution wrote what displaying the argument writes and then,
\* once, the argument's display form, and returned Integer 0
PrintedOnce(k, d) ==
    /\ IsOk(results[k].r)
    /\ ResultValue(k) = Integer(Isize(0))
    /\ results[k].out = (OutBefore(k) \o d.ev.out) \o <<d.text>>

\* C17: print called with one argument writes the display form of the
\* argument exactly once and returns Integer 0; called with no argument or
\* with more than one it returns an error and writes nothing.
C17_PrintTakesOneArgument ==
    (Resolved(1) /\ ast.v \in StatementsOf("Print")) =>
        \A k \in 1..Len(results) :
            IF Len(Root.args) = 1
            THEN PrintedOnce(k, DisplayNow(Root.args[1]))
            ELSE IsErr(results[k].r) /\ results[k].out = OutBefore(k)

\* (print (+ 2 5)) has been resolved: it wrote 7 and returned 0
C17_Witness ==
    /\ Resolved(1) /\ ast.v \in StatementsOf("Print")
    /\ source = Unwords(Wrap(<<W_print>> \o Wrap(<<W_plus, <<"2">>, <<"5">>>>)))
    /\ Written(results[1].out) = <<<<"7">>>>
    /\ ResultValue(1) = Integer(Isize(0))

\* print with two arguments has been resolved, to an error and no output
C17_WitnessTwoArguments ==
    /\ Resolved(1) /\ ast.v \in StatementsOf("Print")
    /\ Len(Root.args) = 2
    /\ IsErr(results[1].r) /\ Written(out) = <<>>

-----------------------------------------------------------------------------
(* C18: nested statements are resolved by their parent only                *)

\* tokenize or make_ast did not return a value
LexOrParseFailed == tokens.kind \in {"Err", "Panic"} \/ ast.kind \in {"Err", "Panic"}

\* No callable has been invoked and no callable has written anything
NothingEvaluated ==
    /\ calls = 0 /\ raised = 0 /\ Written(out) = <<>>
    /\ \A c \in StatementCells : heap[c].res = 0

\* The arguments of the root that are Statements
NestedArgs == {k \in 1..Len(Root.args) : is_stmt(heap[Root.args[k]])}

\* C18: until the root Statement is resolved no callable has been invoked,
\* no nested Statement has a result and nothing has been written, so
\* tokenizing and parsing invoke nothing; a source that tokenize or make_ast
\* rejects is never resolved; and a nested Statement that its parent does
\* not resolve, an argument of a print with several arguments, is never
\* invoked.
C18_NestedStatementsAreLazy ==
    /\ (results = <<>>) => NothingEvaluated
    /\ LexOrParseFailed => (results = <<>> /\ pc \in {"done", "aborted"})
    /\ (Resolved(1) /\ ast.v \in StatementsOf("Print") /\ Len(Root.args) # 1) =>
          /\ \A k \in 1..Len(results) : results[k].calls = k
          /\ \A k \in NestedArgs : heap[Root.args[k]].res = 0

\* A Statement with a nested Statement has been resolved once: two
\* callables were invoked and the nested Statement has its result
C18_Witness ==
    /\ Resolved(1) /\ Len(results) = 1 /\ NestedArgs # {}
    /\ results[1].calls = 2
    /\ \E k \in NestedArgs : heap[Root.args[k]].res # 0

\* A Statement with a nested Statement has been parsed and not yet resolved
C18_ParsedUnresolved ==
    /\ pc = "eval" /\ results = <<>> /\ NestedArgs # {}
    /\ NothingEvaluated

\* A source with a print has been rejected by make_ast
C18_RejectedPrint ==
    /\ pc = "done" /\ IsOk(tokens) /\ IsErr(ast)
    /\ \E k \in 1..Len(Toks) : Toks[k].dat = Ident(Str_print)
    /\ NothingEvaluated

-----------------------------------------------------------------------------
(* C19: the outcomes of a parse                                            *)

\* The bounds of the loop of AstParser::parse over ts
SpanStart(ts) == IF IsStart(ts[1]) THEN 1 ELSE 0
SpanEnd(ts) == IF IsEnd(ts[Len(ts)]) THEN Len(ts) - 2 ELSE Len(ts) - 1

\* The parser of the tokens when its loop is over
AfterLoop == parse_loop(AstParser_new(DefaultStore), Toks, SpanStart(Toks), SpanEnd(Toks))

\* The loop went over the whole span: the span is not empty, no token of
\* it was rejected and every start marker in it was closed
SpanConsumed(p) ==
    /\ Len(Toks) >= 2 /\ SpanStart(Toks) <= SpanEnd(Toks)
    /\ p.ret.kind = "None"
    /\ p.open_stack = <<>>

\* The one outcome that the values p.args collected by the loop call for
Outcome(p) ==
    IF p.args # <<>> /\ is_func(p.st.heap[p.args[1]])
    THEN /\ IsOk(ast)
         /\ is_stmt(Root) /\ Root.op = p.args[1] /\ Root.args = Tail(p.args)
    ELSE IF Len(p.args) = 1 /\ is_stmt(p.st.heap[p.args[1]])
    THEN IsOk(ast) /\ Root = p.st.heap[p.args[1]]
    ELSE IsErr(ast) /\ ast.e = RawListError(Location(0, 0))

\* C19: once its loop has gone over the whole token span the parser returns
\* a Statement when the first collected value is callable, the inner
\* Statement when the only collected value is a Statement, and the raw
\* lists error otherwise, the case of no collected value included; it never
\* aborts.
C19_ParseEndsInOneOfThree ==
    (pc \in {"eval", "done", "aborted"} /\ results = <<>> /\ IsOk(tokens) /\ ast.kind # "None") =>
        /\ ~IsPanic(ast)
        /\ SpanConsumed(AfterLoop) => Outcome(AfterLoop)

\* A span of values none of which is callable has been parsed, to the raw
\* lists error
C19_RawListRejected ==
    /\ pc = "done" /\ IsOk(tokens) /\ ast.kind # "None"
    /\ source = Unwords(Wrap(<<<<"1">>, <<"2">>>>))
    /\ SpanConsumed(AfterLoop) /\ Len(AfterLoop.args) = 2
    /\ Outcome(AfterLoop)

-----------------------------------------------------------------------------
(* C20: the end of the input                                               *)

\* The Tokenizer when the loops of Tokenizer::tokenize are over
AtEndOfInput(src) == tokenize_lines(Tokenizer_new, SplitLines(src), 1)

\* The token of the characters still in the token buffer, if any
FinalToken(tk) ==
    IF Trim(tk.token_buf) # <<>> THEN <<TokenType_from(tk.token_buf)>> ELSE <<>>

\* The tokens emitted before the end of the input, the token of the buffer
\* and one end marker for each `$` still open
FlushedTokens(tk) ==
    (TokenTypes(tk.tokens) \o FinalToken(tk)) \o [k \in 1..tk.right_assocs |-> EndStmt]

\* C20: at the end of the input the characters still in the token buffer
\* become a final token and then one end marker is emitted for each `$`
\* still open; the 2 of `+ 1 2` is a token.
C20_BufferIsFlushedAtEnd ==
    /\ (Lexed /\ IsOk(tokens) /\ AtEndOfInput(source).status = "Normal") =>
          TokenTypes(Toks) = FlushedTokens(AtEndOfInput(source))
    /\ (Lexed /\ source = Unwords(Ex_unwrapped)) =>
          /\ IsOk(tokens)
          /\ \E k \in 1..Len(Toks) : Toks[k].dat = Recognizable(Integer(Isize(2)))

\* `print $` has been tokenized: the `$` still open at the end of the
\* input got its end marker
C20_OpenWrapClosed ==
    /\ Lexed /\ IsOk(tokens) /\ source = Unwords(Ex_wrap_open)
    /\ TokenTypes(Toks) = <<Ident(Str_print), StartStmt, EndStmt>>
    /\ TokenTypes(Toks) = FlushedTokens(AtEndOfInput(source))

-----------------------------------------------------------------------------
(* C21: classification of a flushed buffer                                 *)

\* The keyword whose text is exactly w
ExactKeyWord(w) ==
    IF w = W_let THEN [ok |-> TRUE, k |-> "Let"]
    ELSE IF w = W_lambda THEN [ok |-> TRUE, k |-> "Lambda"]
    ELSE [ok |-> FALSE, k |-> ""]

\* The class of the buffer w: keyword on an exact match, then whole number,
\* then decimal number, then nil, otherwise identifier
ExactClass(w) == Classify(w, w, ExactKeyWord(w), ParseIsize(w), ParseF64(w))

\* s is one bare lexeme in a start/end pair
IsOneLexeme(s) ==
    /\ Len(s) >= 3 /\ s[1] = "(" /\ s[Len(s)] = ")"
    /\ \A k \in 2..(Len(s) - 1) : s[k] \notin {"(", ")", " ", "\"", "$", "/", "{", "\n"}

\* The lexeme of such a source
Lexeme(s) == SubSeq(s, 2, Len(s) - 1)

IsNumberOrNil(w) == ParseIsize(w).ok \/ ParseF64(w).ok \/ w = <<"n", "i", "l">>

\* C21: the buffer flushed for a bare lexeme becomes a keyword token exactly
\* when it is `let` or `lambda`, else an Integer when it is a whole number,
\* else a Floating when it is a decimal number, else Nil when it is `nil`,
\* else an identifier; a keyword, a number or `nil` is never an identifier.
C21_ClassifiedInOrder ==
    (Lexed /\ IsOneLexeme(source)) =>
        /\ IsOk(tokens)
        /\ TokenTypes(Toks) = <<StartStmt, ExactClass(Lexeme(source)), EndStmt>>
        /\ (ExactKeyWord(Lexeme(source)).ok \/ IsNumberOrNil(Lexeme(source))) =>
              Toks[2].dat.t # "Ident"

\* One of (nil), (12), (1.5), (let) and (x) has been tokenized, to its class
C21_Witness ==
    /\ Lexed /\ IsOk(tokens) /\ IsOneLexeme(source)
    /\ Lexeme(source) \in {W_let, <<"1", "2">>, <<"1", ".", "5">>, <<"n", "i", "l">>, W_x}
    /\ TokenTypes(Toks) = <<StartStmt, ExactClass(Lexeme(source)), EndStmt>>

-----------------------------------------------------------------------------
(* C22: string literals                                                    *)

\* The Tokenizer after the first k characters of the source
AfterPrefix(k) == AtEndOfInput(SubSeq(source, 1, k))

\* The characters that delimit or begin something outside a string
NormalDelimiters == {"(", ")", "$", " ", "/", "{"}

\* In the Tokenizer tk, which is inside a string, each of these characters
\* is appended to the buffer and nothing else changes
BufferedInString(tk) ==
    \A c \in NormalDelimiters :
        tokenize_match(tk, c) = [tk |-> [tk EXCEPT !.token_buf = Append(@, c)], skip |-> FALSE]

\* In the Tokenizer tk, which is inside a string, a `"` emits the buffer as
\* one string literal token and the Tokenizer is in Normal mode again
ClosedAsString(tk, after) ==
    /\ TokenTypes(after.tokens) = Append(TokenTypes(tk.tokens), Recognizable(Str(tk.token_buf)))
    /\ after.status = "Normal"
    /\ after.token_buf = <<>>

\* C22: the buffer flushed by the closing `"` becomes a string literal token
\* whatever it reads as, and the lexer is in Normal mode again; inside a
\* string `(`, `)`, `$`, space, `/` and `{` are buffered and emit no token.
C22_StringsBypassClassification ==
    /\ Lexed =>
          \A k \in 0..Len(source) :
              AfterPrefix(k).status = "String" =>
                  /\ BufferedInString(AfterPrefix(k))
                  /\ ClosedAsString(AfterPrefix(k), tokenize_match(AfterPrefix(k), "\"").tk)
    /\ \A b \in StringBodies :
          (Lexed /\ source = PrintOf(b)) =>
              /\ IsOk(tokens)
              /\ TokenTypes(Toks) = <<StartStmt, Ident(Str_print), Recognizable(Str(b)), EndStmt>>

\* (print "12") has been tokenized: the 12 is a string literal
C22_Witness ==
    /\ Lexed /\ IsOk(tokens) /\ source = PrintOf(<<"1", "2">>)
    /\ Toks[3].dat = Recognizable(Str(<<"1", "2">>))

\* A string literal holding delimiters has been tokenized, to one token
C22_WitnessDelimiters ==
    /\ Lexed /\ IsOk(tokens)
    /\ \E b \in StringBodies :
          /\ Len(b) > 6 /\ source = PrintOf(b)
          /\ Len(Toks) = 4 /\ Toks[3].dat = Recognizable(Str(b))

-----------------------------------------------------------------------------
(* C23: the two phases of let                                              *)

\* The parser of the tokens after the tokens up to the code's index i
ParserAfter(i) == parse_loop(AstParser_new(DefaultStore), Toks, SpanStart(Toks), i)

\* The token of index i ends the binding list that the parser p is in
EndsLetList(p, i) ==
    /\ p.ret.kind = "None" /\ p.status.m = "Identifiers"
    /\ IsEnd(Toks[i + 1]) /\ Len(p.status.positions) <= 1
    /\ p.status.start + 2 <= i

\* The scan of that binding list
ScanOf(p, i) == process_identifiers(SubSeq(Toks, p.status.start + 3, i), p.st.heap, p.st.scope)

\* The token of index i is one of a binding list and not its end: the Scope
\* stays as it is
ScopeKeptInList(p, i, after) ==
    (p.ret.kind = "None" /\ p.status.m = "Identifiers" /\ ~EndsLetList(p, i)) =>
        after.st.scope = p.st.scope

\* The scan of the binding list that the token of index i ends fails: the
\* Scope is the one before the let, and the parse returns the scan's error
ScopeKeptOnFailure(p, i, q, after) ==
    (EndsLetList(p, i) /\ q.ret.kind = "Err") =>
        /\ after.st.scope = p.st.scope
        /\ scope = p.st.scope
        /\ ast = ErrR(q.ret.e)

\* The scan succeeds: every name it collected is in the Scope afterwards,
\* unless introducing one of them failed
NamesAfterScan(p, i, q, after) ==
    (EndsLetList(p, i) /\ q.ret.kind = "None" /\ after.ret.kind = "None") =>
        \A k \in 1..Len(q.to_introduce) : q.to_introduce[k].ident \in DOMAIN after.st.scope

\* C23: while the tokens of a binding list are gone over the Scope is not
\* modified; when the scan of the list fails the Scope is left as it was
\* before the let; names are in the Scope only after a scan without error.
C23_LetIsTwoPhase ==
    (pc \in {"eval", "done", "aborted"} /\ results = <<>> /\ IsOk(tokens) /\ Len(Toks) >= 2) =>
        \A i \in SpanStart(Toks)..SpanEnd(Toks) :
            /\ ScopeKeptInList(ParserAfter(i - 1), i, ParserAfter(i))
            /\ ScopeKeptOnFailure(ParserAfter(i - 1), i, ScanOf(ParserAfter(i - 1), i),
                                  ParserAfter(i))
            /\ NamesAfterScan(ParserAfter(i - 1), i, ScanOf(ParserAfter(i - 1), i),
                              ParserAfter(i))

\* A binding list with a good binding and then a name without a value has
\* been parsed: the scan had collected the good binding when it failed, and
\* the Scope is the default one
C23_Witness ==
    /\ pc = "done" /\ IsOk(tokens) /\ IsErr(ast) /\ Len(Toks) >= 2
    /\ \E i \in SpanStart(Toks)..SpanEnd(Toks) :
          /\ EndsLetList(ParserAfter(i - 1), i)
          /\ ScanOf(ParserAfter(i - 1), i).ret.kind = "Err"
          /\ Len(ScanOf(ParserAfter(i - 1), i).to_introduce) > 0
    /\ scope = DefaultScope

-----------------------------------------------------------------------------
(* C24: initializers that are names                                        *)

\* The tokens of the binding list that the token of index i ends
ListOf(p, i) == SubSeq(Toks, p.status.start + 3, i)

\* L[k] is the name of a binding `(name initializer)` of the list L whose
\* initializer is a name
BindsToName(L, k) ==
    /\ k > 1 /\ k + 2 <= Len(L)
    /\ IsStart(L[k - 1]) /\ L[k].dat.t = "Ident" /\ L[k + 1].dat.t = "Ident" /\ IsEnd(L[k + 2])

\* The name id is bound by a binding of L before its k-th token
BoundEarlierInList(L, k, id) ==
    \E j \in 1..(k - 2) :
        /\ L[j].dat = Ident(id)
        /\ (j = 1 \/ IsStart(L[j - 1]) \/ IsEnd(L[j - 1]))

DependsOnAnotherText ==
    <<"Making a variable depend upon another in the statement is not currently implemented!">>

\* The binding at L[k] names a sibling bound earlier in L and not bound
\* before the let, and the list is scanned without error up to it: the parse
\* returns the error about depending upon another variable
SiblingRejected(p, L, k) ==
    (/\ BindsToName(L, k)
     /\ L[k + 1].dat.id \notin DOMAIN p.st.scope
     /\ BoundEarlierInList(L, k, L[k + 1].dat.id)
     /\ process_identifiers(SubSeq(L, 1, k), p.st.heap, p.st.scope).ret.kind = "None") =>
        /\ IsErr(ast)
        /\ Contains(LispErrorsDisplay(ast.e), DependsOnAnotherText)

\* The binding at L[k] names an identifier bound before the let, and the let
\* form is accepted: the new name has the cell of that identifier
OuterAliased(p, L, k, after) ==
    (/\ BindsToName(L, k)
     /\ L[k + 1].dat.id \in DOMAIN p.st.scope
     /\ after.ret.kind = "None") =>
        /\ L[k].dat.id \in DOMAIN after.st.scope
        /\ after.st.scope[L[k].dat.id] = p.st.scope[L[k + 1].dat.id]

\* C24: a binding whose initializer names a sibling binding of the same list
\* is rejected with the error about depending upon another variable; one
\* whose initializer names an identifier bound before the let is accepted
\* and bound to the cell of that identifier.
C24_SiblingRejectedOuterAliased ==
    (pc \in {"eval", "done", "aborted"} /\ results = <<>> /\ IsOk(tokens) /\ Len(Toks) >= 2) =>
        \A i \in SpanStart(Toks)..SpanEnd(Toks) :
            EndsLetList(ParserAfter(i - 1), i) =>
                \A k \in 1..Len(ListOf(ParserAfter(i - 1), i)) :
                    /\ SiblingRejected(ParserAfter(i - 1), ListOf(ParserAfter(i - 1), i), k)
                    /\ OuterAliased(ParserAfter(i - 1), ListOf(ParserAfter(i - 1), i), k,
                                    ParserAfter(i))

\* A let whose initializer names an identifier bound before it has been
\* parsed: the new name has the cell of that identifier
C24_OuterAliasBound ==
    /\ pc = "eval" /\ results = <<>> /\ IsOk(tokens) /\ Len(Toks) >= 2
    /\ \E i \in SpanStart(Toks)..SpanEnd(Toks) :
          /\ EndsLetList(ParserAfter(i - 1), i)
          /\ \E k \in 1..Len(ListOf(ParserAfter(i - 1), i)) :
                /\ BindsToName(ListOf(ParserAfter(i - 1), i), k)
                /\ ListOf(ParserAfter(i - 1), i)[k + 1].dat.id \in DOMAIN ParserAfter(i - 1).st.scope
                /\ ParserAfter(i).ret.kind = "None"
                /\ OuterAliased(ParserAfter(i - 1), ListOf(ParserAfter(i - 1), i), k,
                                ParserAfter(i))

-----------------------------------------------------------------------------
(* C25: lambda                                                             *)

HasLambda(ts) == \E k \in 1..Len(ts) : ts[k].dat = KeyWord("Lambda")

\* C25: make_ast on tokens that hold a lambda keyword, wherever it is, never
\* returns a Statement: it aborts or returns an error.
C25_LambdaAlwaysFails ==
    (IsOk(tokens) /\ HasLambda(Toks) /\ ast.kind # "None") => ~IsOk(ast)

\* (+ 1 (lambda)) has been parsed: make_ast aborted as not implemented
C25_NestedLambdaAborts ==
    /\ IsOk(tokens) /\ HasLambda(Toks)
    /\ source = Unwords(Wrap(<<W_plus, <<"1">>>> \o Wrap(<<W_lambda>>)))
    /\ IsPanic(ast) /\ ast.panic = "not implemented"

\* A let with a lambda in its binding list has been parsed, to an error
C25_LambdaInListRejected ==
    /\ IsOk(tokens) /\ HasLambda(Toks)
    /\ source = Unwords(Wrap((<<W_let>> \o Wrap(<<W_lambda>>)) \o <<W_plus, <<"1">>, <<"2">>>>))
    /\ IsErr(ast)

-----------------------------------------------------------------------------
(* User functions (src/src/callable.rs, struct Function).  No source text  *)
(* builds one, lambda being unimplemented, so Function::call is modelled   *)
(* as the caller of the crate's API sees it: a Function over its parameter *)
(* Vars and its body Statement, called with the Vars the caller made.      *)

MaxParams == 2
MaxCalls == 1

\* The cells of the functions called: the parameter Vars, one literal 1, and
\* the Function itself.
ParamCells == [k \in 1..MaxParams |-> Len(DefaultHeap) + k]
LiteralCell == Len(DefaultHeap) + MaxParams + 1
FnCell == Len(DefaultHeap) + MaxParams + 2

\* The body of the function of n parameters: `+` over its parameters, with
\* the literal in the places that are left of two: (+ 1 1), (+ a 1), (+ a b)
BodyArgs(n) ==
    [k \in 1..(IF n < 2 THEN 2 ELSE n) |-> IF k <= n THEN ParamCells[k] ELSE LiteralCell]
FunctionOf(n) ==
    Function_new(SubSeq(ParamCells, 1, n),
                 StatementValue(BodyArgs(n), DefaultScope[<<"+">>], 0, Location(0, 1)))

\* A Function that has its own cell as its parameter, as
\* `*f.get_mut() = Function::new(vec![f.new_ref()], body).into()` makes it
OwnParameter ==
    Function_new(<<FnCell>>,
                 StatementValue(BodyArgs(0), DefaultScope[<<"+">>], 0, Location(0, 1)))
Functions == {FunctionOf(n) : n \in 0..MaxParams} \cup {OwnParameter}

\* The values a caller passes
ArgValues == {Integer(Isize(1)), Func("Add"), StatementValue(<<>>, DefaultScope[<<"+">>], 0, Location(0, 0))}

\* Where the function is called from
CallLoc == Location(0, 0)

\* A Function of up to MaxParams parameters and the Vars of up to one
\* argument more than it takes, each made by Var::new
InitFn ==
    /\ source = <<>>
    /\ pc = "call"
    /\ tokens = NoResult
    /\ scope = DefaultScope
    /\ ast = NoResult
    /\ results = <<>>
    /\ out = <<>>
    /\ calls = 0
    /\ raised = 0
    /\ lisp_errors = LispErrors_new
    /\ overflow_checks \in BOOLEAN
    /\ dump = FALSE
    /\ \E fn \in Functions, m \in 0..(MaxParams + 1) :
          /\ m <= Len(fn.vars) + 1
          /\ \E vals \in [1..m -> ArgValues] :
                /\ heap = DefaultHeap \o [k \in 1..MaxParams |-> Nil] \o <<Integer(Isize(1))>>
                              \o <<fn>> \o vals
                /\ handles = [k \in 1..m |-> Handle(FnCell + k, 0, "new", FALSE)]

\* The Vars the caller passes, in order
ArgsOf(hs) == [k \in 1..Len(hs) |-> hs[k].var]

\* f.get().unwrap_func().call(&args, &loc): the Ref of the Function's cell
\* lives until the call has returned
FnCall ==
    /\ pc = "call"
    /\ Len(results) < MaxCalls
    /\ LET s == Function_call(heap[FnCell], ArgsOf(handles), CallLoc,
                              [heap |-> heap, out |-> out, calls |-> calls, raised |-> raised,
                               overflow_checks |-> overflow_checks, borrowed |-> {FnCell}])
       IN  /\ heap' = [s.ev.heap EXCEPT ![FnCell] = s.fn]
           /\ out' = s.ev.out
           /\ calls' = s.ev.calls
           /\ raised' = s.ev.raised
           /\ results' = Append(results, [r |-> s.r, out |-> s.ev.out, calls |-> s.ev.calls,
                                          res |-> s.fn.dat.res])
           /\ pc' = IF IsPanic(s.r) THEN "aborted" ELSE "call"
    /\ UNCHANGED <<source, tokens, scope, ast, handles, lisp_errors, overflow_checks, dump>>

\* *arg.get_mut() = LispValue::Integer(2), by the caller
ArgWrite ==
    /\ pc = "call"
    /\ \E h \in 1..Len(handles) :
          /\ heap[handles[h].var] # Integer(Isize(2))
          /\ heap' = Var_set(heap, handles[h].var, Integer(Isize(2)))
    /\ UNCHANGED <<source, pc, tokens, scope, ast, results, out, calls, raised, handles, lisp_errors, overflow_checks, dump>>

NextFn == FnCall \/ ArgWrite
SpecFn == InitFn /\ [][NextFn]_vars

-----------------------------------------------------------------------------
(* C26 *)

\* The Function called, and the parameter Vars it was made over
TheFunction == heap[FnCell]
Params == TheFunction.vars

\* The Result of the latest call, in the state after it
LatestResult == results'[Len(results')].r

\* The call returned exactly the one error `text`, reported at the call
ReturnedError(r, text) ==
    /\ IsErr(r)
    /\ Len(r.e) = 1
    /\ r.e[1].msg = LocationDisplay(CallLoc) \o <<" - ">> \o text

\* The call wrote no cell and called nothing: every parameter holds what it
\* held, and the body and its result slot are as they were
NothingBoundOrResolved ==
    /\ heap' = heap
    /\ calls' = calls + 1
    /\ out' = out

\* The k-th parameter was written by this call: it holds a Var that is the
\* argument's own or one made during the call
ParamWritten(k) ==
    /\ heap'[Params[k]].tag = "Var"
    /\ \/ heap'[Params[k]].c = handles[k].var
       \/ heap'[Params[k]].c > Len(heap)

\* What a call returned: the value in the Var of an Ok, or the Err itself
Returned(r, heap_) == IF IsOk(r) THEN heap_[r.v] ELSE r
ReturnedBy(s) == Returned(s.r, s.ev.heap)

\* The body was called, and what it returned is what it returns with the
\* parameters as they are after the call
BodyResolvedAfterBinding(r) ==
    /\ calls' = calls + 2
    /\ Returned(r, heap') =
          ReturnedBy(Statement_resolve(TheFunction.dat,
                                       [heap |-> heap', out |-> out', calls |-> calls',
                                        raised |-> raised',
                                        overflow_checks |-> overflow_checks',
                                        borrowed |-> {}]))

\* C26: a call with fewer arguments than parameters returns "Insufficient
\* arguments provided!", one with more returns "Too many arguments
\* provided!", and neither writes a parameter nor resolves the body; a call
\* with as many arguments as parameters that does not abort has written
\* every parameter, and then resolved the body.
C26_CountCheckedBeforeBinding ==
    [][results' # results =>
          /\ Len(handles) < Len(Params) =>
                /\ ReturnedError(LatestResult, <<"Insufficient arguments provided!">>)
                /\ NothingBoundOrResolved
          /\ Len(handles) > Len(Params) =>
                /\ ReturnedError(LatestResult, <<"Too many arguments provided!">>)
                /\ NothingBoundOrResolved
          /\ (Len(handles) = Len(Params) /\ ~IsPanic(LatestResult)) =>
                /\ \A k \in 1..Len(Params) : ParamWritten(k)
                /\ BodyResolvedAfterBinding(LatestResult)]_vars

\* A function of two parameters has been called with one argument: it
\* returned the error and its parameters are nil as before
C26_Witness ==
    /\ results # <<>>
    /\ Len(Params) = 2 /\ Len(handles) = 1
    /\ IsErr(results[1].r)
    /\ \A k \in 1..2 : heap[Params[k]] = Nil
    /\ TheFunction.dat.res = 0

\* A function of two parameters has been called with two arguments: both
\* parameters hold a Var and the body has been called
C26_WitnessEqual ==
    /\ results # <<>>
    /\ Len(Params) = 2 /\ Len(handles) = 2
    /\ \A k \in 1..2 : heap[Params[k]].tag = "Var"
    /\ results[1].calls = 2

-----------------------------------------------------------------------------
(* C27 *)

\* The latest call had as many arguments as parameters and ran its loop to
\* the end
ParamsBound ==
    /\ results # <<>>
    /\ Len(handles) = Len(Params)
    /\ ~IsPanic(results[Len(results)].r)

\* What is read through the k-th parameter: the value of the Var it holds
ThroughParam(k) == heap[heap[Params[k]].c]

\* C27: after a call, what is read through a parameter is what the cell of
\* the caller's argument holds, also after the caller wrote to that cell.
C27_ArgumentsAreAliased ==
    ParamsBound =>
        \A k \in 1..Len(Params) :
            /\ heap[Params[k]].tag = "Var"
            /\ ThroughParam(k) = heap[handles[k].var]

\* The function was called with the Integer 1, the caller then wrote 2 to
\* the argument's cell, and the parameter still reads 1 from a cell of its own
C27_ParameterIsACopy ==
    /\ ParamsBound
    /\ Len(Params) >= 1
    /\ heap[handles[1].var] = Integer(Isize(2))
    /\ ThroughParam(1) = Integer(Isize(1))
    /\ heap[Params[1]].c # handles[1].var

-----------------------------------------------------------------------------
(* C28 *)

\* The evaluation state of the current state
EvNow == [heap |-> heap, out |-> out, calls |-> calls, raised |-> raised,
         overflow_checks |-> overflow_checks, borrowed |-> {}]

\* The value Var::resolve of the Var c yields
ResolvedValue(c) == ReturnedBy(Var_resolve(c, EvNow))

\* Every parameter is bound to an Integer
BoundToIntegers ==
    /\ ParamsBound
    /\ Len(Params) >= 1
    /\ \A k \in 1..Len(Params) :
          heap[Params[k]].tag = "Var" /\ ThroughParam(k).tag = "Integer"

\* C28: a parameter bound to an Integer resolves to that Integer, and the
\* body `+` over parameters bound to Integers returned an Integer.
C28_AliasResolvesToItsTarget ==
    BoundToIntegers =>
        /\ \A k \in 1..Len(Params) : ResolvedValue(Params[k]) = ThroughParam(k)
        /\ IsOk(results[Len(results)].r)
        /\ heap[results[Len(results)].r.v].tag = "Integer"

\* The function (+ a 1) was called with the Integer 1: resolving the
\* parameter yields the Var it holds, and `+` returned the type error
C28_AliasRejectedByAdd ==
    /\ BoundToIntegers
    /\ Len(Params) = 1
    /\ ResolvedValue(Params[1]).tag = "Var"
    /\ IsErr(results[1].r)
    /\ results[1].r.e[1].msg =
          LocationDisplay(TheFunction.dat.loc)
              \o <<" - ", "Incompatible types for addition: Integer and ", "1">>

-----------------------------------------------------------------------------
(* C29 *)

\* The Var h was returned by maybe_clone
IsClone(h) == handles[h].by = "maybe_clone"

\* The Var h has a cell of its own, apart from the Var it was made from
OwnCell(h) == handles[h].var # handles[handles[h].of].var

\* C29: every Var maybe_clone returned is an independent copy, and it was
\* made from plain data: for a Statement and for a callable without
\* try_clone, which are all the callables there are, none is returned.
C29_CloneIsCopyOrFatal ==
    \A h \in 1..Len(handles) :
        IsClone(h) => (OwnCell(h) /\ handles[h].plain)

\* maybe_clone of a Var holding the intrinsic `+` has returned a Var, and it
\* shares the cell of the Var it was made from
C29_IntrinsicIsShared ==
    \E h \in 1..Len(handles) :
        /\ IsClone(h)
        /\ ~OwnCell(h)
        /\ heap[handles[h].var] = Func("Add")
        /\ pc = "vars"

-----------------------------------------------------------------------------
(* C30 *)

\* The cells of the arithmetic intrinsics `+`, `-` and `*`
ArithmeticCells == {DefaultScope[<<"+">>], DefaultScope[<<"-">>], DefaultScope[<<"*">>]}

\* The source parsed to an arithmetic intrinsic over fewer than two
\* arguments, each an Integer literal, and it has been resolved
ShortArithmeticResolved ==
    /\ IsOk(ast)
    /\ results # <<>>
    /\ heap[ast.v].op \in ArithmeticCells
    /\ Len(heap[ast.v].args) < 2
    /\ \A k \in 1..Len(heap[ast.v].args) : heap[heap[ast.v].args[k]].tag = "Integer"

\* The line is a warning of an arithmetic intrinsic
IsArityWarning(line) ==
    /\ line # <<>>
    /\ line[Len(line)] = " requires at least two arguments!"

\* C30: `+`, `-` or `*` over no argument or one Integer prints its warning
\* and returns a value.
C30_ShortArithmeticWarnsAndCompletes ==
    ShortArithmeticResolved =>
        /\ Written(results[1].out) # <<>>
        /\ IsArityWarning(Written(results[1].out)[1])
        /\ IsOk(results[1].r)

\* `-` or `*` over no argument has printed its warning and then aborted
C30_NoArgumentAborts ==
    /\ ShortArithmeticResolved
    /\ heap[ast.v].args = <<>>
    /\ IsArityWarning(Written(results[1].out)[1])
    /\ IsPanic(results[1].r)
    /\ pc = "aborted"

-----------------------------------------------------------------------------
(* C31 *)

\* The types of the tokens tokenize returns from the Tokenizer tk: those it
\* has emitted and one end marker for each `$` still open
EmittedTypes(tk) == TokenTypes(tk.tokens) \o [k \in 1..tk.right_assocs |-> EndStmt]

\* The index of the character with which the Tokenizer entered the status
\* st that it is still in at the end of the source
PendingFrom(st) ==
    CHOOSE k \in 1..Len(source) :
        /\ \A j \in k..Len(source) : AfterPrefix(j).status = st
        /\ k = 1 \/ AfterPrefix(k - 1).status # st

\* The source ends inside a string or a block comment
EndsPending == AtEndOfInput(source).status \in {"String", "Comment"}

\* Nothing of the pending string or comment is in the token list: it is the
\* list of the source cut where the string or comment was entered
PendingDropped(st) == TokenTypes(Toks) = EmittedTypes(AfterPrefix(PendingFrom(st)))

\* C31: tokenize returns Ok for every source, push_tok is never entered in
\* Comment status, and of a string or block comment still open at the end
\* of the source nothing is in the token list.
C31_LexerNeverFails ==
    pc # "lex" =>
        /\ IsOk(tokens)
        /\ pc # "aborted"
        /\ EndsPending => PendingDropped(AtEndOfInput(source).status)

\* A source ending inside a string with text in it has been tokenized
C31_Witness ==
    /\ pc # "lex"
    /\ IsOk(tokens)
    /\ AtEndOfInput(source).status = "String"
    /\ PendingFrom("String") < Len(source)
    /\ AtEndOfInput(source).token_buf # <<>>

\* A source ending inside a block comment has been tokenized
C31_WitnessComment ==
    /\ pc # "lex"
    /\ IsOk(tokens)
    /\ AtEndOfInput(source).status = "Comment"
    /\ PendingFrom("Comment") < Len(source)

-----------------------------------------------------------------------------
(* The builder of LispErrors (src/src/lib/error.rs) as a state machine: a  *)
(* caller starts from LispErrors::new() and applies error, note with and   *)
(* without a Location, and extend, in any order.  pc is the method applied *)
(* last.                                                                   *)

MaxErrs == 2
MaxNotes == 2

ErrTexts == {<<"a">>, <<"b">>}
NoteTexts == {<<"n">>}
ErrLoc == Location(1, 2)

InitErrs ==
    /\ source = <<>>
    /\ pc = "new"
    /\ tokens = NoResult
    /\ scope = DefaultScope
    /\ heap = DefaultHeap
    /\ ast = NoResult
    /\ results = <<>>
    /\ out = <<>>
    /\ calls = 0
    /\ raised = 0
    /\ handles = <<>>
    /\ lisp_errors = LispErrors_new
    /\ overflow_checks \in BOOLEAN
    /\ dump = FALSE

\* The caller may add a note: there is no entry, or the last has room
NoteFits ==
    IF lisp_errors = <<>> THEN TRUE
    ELSE Len(lisp_errors[Len(lisp_errors)].notes) < MaxNotes

\* errs = errs.error(&loc, err)
ErrsError ==
    /\ pc \in {"new", "error", "note", "extend"}
    /\ Len(lisp_errors) < MaxErrs
    /\ \E err \in ErrTexts : lisp_errors' = LispErrors_error(lisp_errors, ErrLoc, err)
    /\ pc' = "error"
    /\ UNCHANGED <<source, tokens, scope, heap, ast, results, out, calls, raised, handles, overflow_checks, dump>>

\* errs = errs.note(None, err)
ErrsNote ==
    /\ pc \in {"new", "error", "note", "extend"}
    /\ NoteFits
    /\ \E err \in NoteTexts : lisp_errors' = LispErrors_note(lisp_errors, err)
    /\ pc' = "note"
    /\ UNCHANGED <<source, tokens, scope, heap, ast, results, out, calls, raised, handles, overflow_checks, dump>>

\* errs = errs.note(&loc, err)
ErrsNoteAt ==
    /\ pc \in {"new", "error", "note", "extend"}
    /\ NoteFits
    /\ \E err \in NoteTexts : lisp_errors' = LispErrors_note_at(lisp_errors, ErrLoc, err)
    /\ pc' = "note"
    /\ UNCHANGED <<source, tokens, scope, heap, ast, results, out, calls, raised, handles, overflow_checks, dump>>

\* The LispErrors a caller hands to extend, each made by the builder
OtherErrs ==
    {LispErrors_new,
     LispErrors_error(LispErrors_new, ErrLoc, <<"b">>),
     LispErrors_note(LispErrors_error(LispErrors_new, ErrLoc, <<"b">>), <<"n">>),
     LispErrors_error(LispErrors_error(LispErrors_new, ErrLoc, <<"a">>), ErrLoc, <<"b">>)}

\* errs.extend(other)
ErrsExtend ==
    /\ pc \in {"new", "error", "note", "extend"}
    /\ \E other \in OtherErrs :
          /\ Len(lisp_errors) + Len(other) <= MaxErrs
          /\ lisp_errors' = LispErrors_extend(lisp_errors, other)
    /\ pc' = "extend"
    /\ UNCHANGED <<source, tokens, scope, heap, ast, results, out, calls, raised, handles, overflow_checks, dump>>

NextErrs == ErrsError \/ ErrsNote \/ ErrsNoteAt \/ ErrsExtend
SpecErrs == InitErrs /\ [][NextErrs]_vars

-----------------------------------------------------------------------------
(* C32 *)

\* `error` was applied: one more entry, after all the others, without notes
ErrorAppended(before, after) ==
    /\ Len(after) = Len(before) + 1
    /\ SubSeq(after, 1, Len(before)) = before
    /\ after[Len(after)].notes = <<>>

\* `note` was applied to an object with entries: the last entry has one more
\* note, after its others, and nothing else differs
NoteAppended(before, after) ==
    /\ Len(after) = Len(before)
    /\ \A k \in 1..(Len(before) - 1) : after[k] = before[k]
    /\ after[Len(after)].msg = before[Len(before)].msg
    /\ Len(after[Len(after)].notes) = Len(before[Len(before)].notes) + 1
    /\ SubSeq(after[Len(after)].notes, 1, Len(before[Len(before)].notes))
          = before[Len(before)].notes

\* C32: `error` appends an entry with no notes after the existing entries;
\* `note` appends to the notes of the last entry and changes no other entry
\* nor the number of entries; `note` on an object without entries changes
\* nothing.
C32_NoteGoesToLastEntry ==
    [][/\ pc' = "error" => ErrorAppended(lisp_errors, lisp_errors')
       /\ (pc' = "note" /\ lisp_errors # <<>>) => NoteAppended(lisp_errors, lisp_errors')
       /\ (pc' = "note" /\ lisp_errors = <<>>) => lisp_errors' = <<>>]_vars

\* Two entries, each with a note of its own: the second `note` came after
\* the second `error` and left the first entry as it was
C32_Witness ==
    /\ pc = "note"
    /\ Len(lisp_errors) = 2
    /\ Len(lisp_errors[1].notes) = 1
    /\ Len(lisp_errors[2].notes) = 1

-----------------------------------------------------------------------------
(* C33 *)

RECURSIVE ParenScan(_, _, _, _)
\* The positions, from the k-th character on, of the `(` and `)` of src that
\* are outside strings and comments.  A string runs from `"` to `"`, a block
\* comment from `{*` to `*}`, a line comment from `//` to the end of its
\* line; prev is the character before the k-th on its line.
ParenScan(src, k, mode, prev) ==
    IF k > Len(src) THEN <<>>
    ELSE IF src[k] = "\n"
    THEN ParenScan(src, k + 1, IF mode = "Line" THEN "Normal" ELSE mode, " ")
    ELSE CASE mode = "String" ->
                ParenScan(src, k + 1, IF src[k] = "\"" THEN "Normal" ELSE mode, src[k])
           [] mode = "Comment" ->
                ParenScan(src, k + 1,
                          IF src[k] = "}" /\ prev = "*" THEN "Normal" ELSE mode, src[k])
           [] mode = "Line" -> ParenScan(src, k + 1, mode, src[k])
           [] OTHER ->
                IF src[k] = "\"" THEN ParenScan(src, k + 1, "String", src[k])
                ELSE IF src[k] \in {"(", ")"}
                THEN <<k>> \o ParenScan(src, k + 1, mode, src[k])
                ELSE IF src[k] = "/" /\ prev = "/" THEN ParenScan(src, k + 1, "Line", src[k])
                ELSE IF src[k] = "*" /\ prev = "{" THEN ParenScan(src, k + 1, "Comment", src[k])
                ELSE ParenScan(src, k + 1, mode, src[k])

ParenPositions(src) == ParenScan(src, 1, "Normal", " ")

RECURSIVE ParenDepth(_, _, _)
\* The `(` still open after the first k of the positions ps; -1 once a `)`
\* had none to close
ParenDepth(src, ps, k) ==
    IF k = 0 THEN 0
    ELSE IF ParenDepth(src, ps, k - 1) < 0 THEN -1
    ELSE IF src[ps[k]] = "(" THEN ParenDepth(src, ps, k - 1) + 1
    ELSE ParenDepth(src, ps, k - 1) - 1

\* The `(` and `)` of src outside strings and comments are balanced
ParensBalanced(src) ==
    ParenDepth(src, ParenPositions(src), Len(ParenPositions(src))) = 0

\* The pending-wrap counter is zero after each of the `)` at the positions ps
NoWrapPendingAfterEnd(src, ps) ==
    \A k \in 1..Len(ps) :
        src[ps[k]] = ")" => AtEndOfInput(SubSeq(src, 1, ps[k])).right_assocs = 0

\* C33: the tokens of a source whose `(` and `)` outside strings and comments
\* are balanced are balanced, every prefix of them holding at least as many
\* start as end markers, and after every such `)` no `$` is pending.
C33_BalancedSourceBalancedTokens ==
    (pc # "lex" /\ IsOk(tokens) /\ ParensBalanced(source)) =>
        /\ Balanced(Toks)
        /\ NoWrapPendingAfterEnd(source, ParenPositions(source))

\* The two-line source `(a /` and `/ b)`, which has no `//`, has been
\* tokenized to a start marker that is never closed
C33_SecondLineSkipped ==
    /\ pc # "lex" /\ IsOk(tokens)
    /\ source = <<"(", "a", " ", "/", "\n", "/", " ", "b", ")">>
    /\ ParensBalanced(source)
    /\ ~Balanced(Toks)
    /\ \A k \in 1..Len(Toks) : ~IsEnd(Toks[k])

-----------------------------------------------------------------------------
(* C34 *)

\* The names of the Identifiers vals, in order
NamesOf(vals) == [j \in 1..Len(vals) |-> vals[j].ident]

\* The binding list after the let at token k, read with the store st
ListAt(ts, k, st) ==
    process_identifiers(SubSeq(ts, k + 2, MatchingEnd(ts, k + 1, 0) - 1), st.heap, st.scope)

\* The store st after the Identifiers of the scan q were bound
StoreAfter(st, q) ==
    [heap |-> q.heap, scope |-> BindFirst(st.scope, q.to_introduce, Len(q.to_introduce))]

RECURSIVE LetScan(_, _, _)
\* The names that the binding lists of the let forms of ts bind, each list
\* read once, from token k on, in the order of the source, and whether
\* process_identifiers accepted every list: [names, ok]
LetScan(ts, k, st) ==
    IF k + 1 > Len(ts) THEN [names |-> <<>>, ok |-> TRUE]
    ELSE IF ~(ts[k].dat = KeyWord("Let") /\ IsStart(ts[k + 1])
                /\ MatchingEnd(ts, k + 1, 0) > 0)
    THEN LetScan(ts, k + 1, st)
    ELSE IF ListAt(ts, k, st).ret.kind # "None" THEN [names |-> <<>>, ok |-> FALSE]
    ELSE [LetScan(ts, MatchingEnd(ts, k + 1, 0) + 1, StoreAfter(st, ListAt(ts, k, st)))
              EXCEPT !.names = NamesOf(ListAt(ts, k, st).to_introduce) \o @]

LetNames(ts) == LetScan(ts, 1, DefaultStore).names

\* No name of ns is bound by default, and none occurs twice
BoundOnce(ns) ==
    /\ \A j \in 1..Len(ns) : ns[j] \notin DOMAIN DefaultScope
    /\ \A i, j \in 1..Len(ns) : i # j => ns[i] # ns[j]

\* The parse ended with the shadowing error
EndedInShadowing ==
    /\ IsErr(ast)
    /\ ast.e[1].msg[Len(ast.e[1].msg)] = "Shadowing is not currently allowed!"

\* The source has a let form inside a nested statement
HasNestedLet ==
    \E k \in 1..Len(Toks) : Toks[k].dat = KeyWord("Let") /\ DepthAfter(Toks, k) >= 2

\* C34: when every name that the let forms of the source bind is bound by
\* one binding only, and not by default, the parse does not end with the
\* shadowing error, at whatever depth the let forms are.
C34_LetListProcessedOnce ==
    (Parsed /\ IsOk(tokens) /\ LetScan(Toks, 1, DefaultStore).ok /\ BoundOnce(LetNames(Toks)))
        => ~EndedInShadowing

\* (+ (let ((x 1)) x) 2) has been parsed: x, bound once in the source, is
\* in the Scope and the parse ended with the shadowing error
C34_NestedLetShadowsItself ==
    /\ Parsed /\ IsOk(tokens)
    /\ HasNestedLet
    /\ LetScan(Toks, 1, DefaultStore).ok
    /\ LetNames(Toks) = <<W_x>>
    /\ W_x \in DOMAIN scope
    /\ EndedInShadowing

-----------------------------------------------------------------------------
(* C35 *)

\* make_ast aborted in the scan of a binding list: in process_identifiers'
\* arm marked unreachable, or taking the slice &ts[t + 2..i]
ScanAborted == ast.panic \in {"unreachable", "slice index starts after its end"}

\* C35: the parse of a source never aborts in the scan of a binding list:
\* the scanner does not reach its unreachable arm and the span it is
\* handed is a valid range.
C35_ScannerNeverAborts == Parsed => ~ScanAborted

\* (let (()) + 1 2) has been parsed: the scanner met the end marker of the
\* empty binding and aborted in its unreachable arm
C35_UnreachableReached ==
    /\ pc = "aborted"
    /\ source = Unwords(Wrap((<<W_let>> \o Wrap(Wrap(<<>>))) \o <<W_plus, <<"1">>, <<"2">>>>))
    /\ ast.panic = "unreachable"

\* (+ let) 1) has been parsed: the span from two tokens after the let to
\* the end marker next to it is no range
C35_SpanInvalid ==
    /\ pc = "aborted"
    /\ source = Unwords(Wrap(<<W_plus, W_let, W_close, <<"1">>>>))
    /\ ast.panic = "slice index starts after its end"

-----------------------------------------------------------------------------
(* C36 *)

\* The characters that end a bare lexeme
LexemeEnds == {"(", ")", "$", " "}

RECURSIVE LexemeEnd(_, _)
\* The index of the last character of the bare lexeme that begins at k
LexemeEnd(s, k) ==
    IF k + 1 > Len(s) \/ s[k + 1] \in LexemeEnds THEN k ELSE LexemeEnd(s, k + 1)

RECURSIVE InSourceOrder(_, _)
\* The start markers and bare lexemes of s from the k-th character on, as
\* token types, in the order in which their text begins
InSourceOrder(s, k) ==
    IF k > Len(s) THEN <<>>
    ELSE IF s[k] \in {"(", "$"} THEN <<StartStmt>> \o InSourceOrder(s, k + 1)
    ELSE IF s[k] \in {")", " "} THEN InSourceOrder(s, k + 1)
    ELSE <<TokenType_from(SubSeq(s, k, LexemeEnd(s, k)))>>
             \o InSourceOrder(s, LexemeEnd(s, k) + 1)

\* The token types tts without the end markers
WithoutEnds(tts) == SelectSeq(tts, LAMBDA t : t # EndStmt)

\* A source of one line, without strings and comments, that ends with `)`,
\* so that every bare lexeme has been emitted
OrderIsVisible(s) ==
    /\ SingleLine(s)
    /\ \A k \in 1..Len(s) : s[k] \notin {"\"", "/", "{"}
    /\ s # <<>> /\ s[Len(s)] = ")"

\* C36: the start markers and bare lexemes of the source have their tokens
\* in the order of the source, also where a bare lexeme stands directly
\* before `(` or `$`.
C36_TokensInSourceOrder ==
    (Lexed /\ IsOk(tokens) /\ OrderIsVisible(source)) =>
        WithoutEnds(TokenTypes(Toks)) = InSourceOrder(source, 1)

\* (a( b)) has been tokenized: the token of a comes after the start marker
\* of the `(` that follows it in the source
C36_StartOvertakesBareToken ==
    /\ Lexed /\ IsOk(tokens)
    /\ source = <<"(", "a", "(", " ", "b", ")", ")">>
    /\ TokenTypes(Toks) = <<StartStmt, StartStmt, Ident(<<"a">>), Ident(<<"b">>), EndStmt, EndStmt>>

-----------------------------------------------------------------------------
(* C37 *)

\* The text of a bare token type: the name of an identifier, the digits of
\* a whole number
BareText(tt) ==
    IF tt.t = "Ident" THEN tt.id
    ELSE IF tt.t = "Recognizable" /\ tt.v.tag = "Integer" THEN IntDisplay(tt.v.i)
    ELSE <<>>

\* The bare lexemes of the line, as token types
LineLexemes(line) == SelectSeq(InSourceOrder(line, 1), LAMBDA t : t # StartStmt)

\* The bare tokens of tts
BareTokens(tts) == SelectSeq(tts, LAMBDA t : t \notin {StartStmt, EndStmt})

\* A source of two lines without strings, comments and `$`, each bare lexeme
\* standing apart from the `(` after it, that ends with `)`
TwoPlainLines(s) ==
    /\ Len(SplitLines(s)) = 2
    /\ \A k \in 1..Len(s) : s[k] \notin {"\"", "/", "{", "*", "$"}
    /\ \A k \in 1..(Len(s) - 1) : s[k + 1] = "(" => s[k] \in LexemeEnds \cup {"\n"}
    /\ s[Len(s)] = ")"

\* C37: the bare tokens of a source of two lines are the bare lexemes of its
\* first line followed by those of its second: no token holds characters of
\* both lines.
C37_LineBreakSeparatesTokens ==
    (Lexed /\ IsOk(tokens) /\ TwoPlainLines(source)) =>
        BareTokens(TokenTypes(Toks))
            = LineLexemes(SplitLines(source)[1]) \o LineLexemes(SplitLines(source)[2])

\* `(+ 1` and `2)` on two lines have been tokenized: to +, and to the one
\* integer 12
C37_LinesMerged ==
    /\ Lexed /\ IsOk(tokens)
    /\ source = <<"(", "+", " ", "1", "\n", "2", ")">>
    /\ TokenTypes(Toks) = <<StartStmt, Ident(<<"+">>), Recognizable(Integer(Isize(12))), EndStmt>>

-----------------------------------------------------------------------------
(* C38 *)

\* The let keywords among the tokens
LetCount(ts) == Cardinality({k \in 1..Len(ts) : ts[k].dat = KeyWord("Let")})

\* The statement parsed begins with its only let form, and introducing the
\* names of its list failed with the shadowing error
OnlyLetFailedToIntroduce ==
    /\ Rebinds
    /\ LetCount(Toks) = 1
    /\ EndedInShadowing

\* C38: when introducing the names of a let list fails with the shadowing
\* error, no name of the list is in the Scope, which is the Scope before
\* the let.
C38_IntroductionIsAllOrNothing ==
    OnlyLetFailedToIntroduce => scope = DefaultScope

\* A let list whose second binding names a bound name has been parsed: the
\* parse ended with the shadowing error and the name of the first binding
\* is in the Scope
C38_EarlierNameLeftInScope ==
    /\ OnlyLetFailedToIntroduce
    /\ LetRebinding(Toks, 2, DefaultStore).at.ident \in DOMAIN DefaultScope
    /\ DOMAIN scope = DOMAIN DefaultScope \cup {W_x}

====
